---- MODULE Spec2Model ----
(***************************************************************************)
(* Kitchen display module: the order / item status lifecycle.              *)
(*                                                                         *)
(* The stored state is the order table, the item table and the kitchen     *)
(* configuration.  Every command of views.py is one action: the handler    *)
(* looks its target up, checks its guard, writes and answers in one step.  *)
(* The views call fire / mark_ready / mark_served / cancel / recall on the *)
(* order; the transitions are those of KitchenOrder in models.py (fire is  *)
(* accept), and recall, which models.py does not have, is served -> ready. *)
(*                                                                         *)
(* The sale-created handler of signals.py issues several separate writes   *)
(* (create order, save accepted_at, one create per item) with no enclosing *)
(* transaction, so each of its writes is a step of its own and commands    *)
(* may run between them.                                                   *)
(*                                                                         *)
(* Two variables record history and are never read by a handler: lastCall  *)
(* (the answer of the latest command) and readyBy (which caller last wrote *)
(* status = ready on an order: a view, "manual", or _check_order_ready,    *)
(* "auto").                                                                *)
(*                                                                         *)
(* logged holds the audit rows (KitchenOrderLog) written by the latest     *)
(* command; config_rows is the KitchenConfig table.                        *)
(*                                                                         *)
(* A second specification, SpecConc, runs requests side by side, one       *)
(* database statement per step: bump_item (item write, all-ready query,    *)
(* order write, audit row) and KitchenConfig.get_config (the statements    *)
(* of get_or_create).  reqs holds those requests; it is empty in Spec.     *)
(***************************************************************************)
EXTENDS Integers, Sequences, FiniteSets

\* ------------------------------------------------------------------ bounds
\* Largest number of line items in one sale.
MaxItems == 2
\* Largest value of the clock; timestamps are clock values, 0 is null.
MaxTime == 2
\* Largest number of requests running side by side.
MaxRequests == 2
\* Largest number of orders on the board that the listing and the count
\* are run on.
MaxOrders == 2

\* Largest number of kitchen stations.
MaxStations == 2

\* ------------------------------------------------------------------ state
VARIABLES
    now,                 \* timezone.now()
    auto_accept_orders,  \* KitchenConfig.auto_accept_orders
    orders,              \* table of KitchenOrder rows, indexed by pk
    items,               \* table of KitchenOrderItem rows, indexed by pk
    sale,                \* the on_sale_created call in progress, if any
    lastCall,            \* the command that completed last and its outcome
    readyBy,             \* per order: the caller of its latest mark_ready / recall
    logged,              \* the KitchenOrderLog rows that command has written
    config_rows,         \* table of KitchenConfig rows: the pk of each row
    config,              \* the other fields of the KitchenConfig row
    reqs,                \* requests running side by side, step by step
    stations             \* table of KitchenStation rows

vars == <<now, auto_accept_orders, orders, items, sale, lastCall, readyBy,
          logged, config_rows, config, reqs, stations>>

STATUS_PENDING == "pending"
STATUS_PREPARING == "preparing"
STATUS_READY == "ready"
STATUS_SERVED == "served"
STATUS_CANCELLED == "cancelled"

OrderStatuses ==
    {STATUS_PENDING, STATUS_PREPARING, STATUS_READY, STATUS_SERVED, STATUS_CANCELLED}

ItemStatuses == {STATUS_PENDING, STATUS_PREPARING, STATUS_READY}

\* Null timestamp (null=True, blank=True columns).
Null == 0

\* The primary keys the order table hands out.  No handler reads or writes a
\* row of an order other than its target (the views look the target up by pk,
\* _check_order_ready filters the items on the item's own order), so the
\* lifecycle of an order does not depend on how many other orders exist.
OrderPks == {1}

OrderIds == 1..Len(orders)

ItemIds == 1..Len(items)

\* order.items: the pks of the items whose foreign key is order o.
ItemsOf(its, o) == {i \in 1..Len(its) : its[i].order = o}

\* Every item of order o is ready, in item table its.
AllReady(its, o) == \A j \in ItemsOf(its, o) : its[j].status = STATUS_READY

NoCall ==
    [op |-> "none", order |-> 0, before |-> "none", success |-> TRUE, code |-> 200]

\* No on_sale_created call in progress.  A call in progress holds its
\* locals: the order it created, n = len(items), the number of items left to
\* create, and auto = config.auto_accept_orders as it read it.
Idle == [pc |-> "idle", order |-> 0, left |-> 0, n |-> 0, auto |-> FALSE]

\* ------------------------------------------------------------ model methods
\* accept with the accepted_at stamp forgotten.
accept_unstamped(ord, t) == [ord EXCEPT !.status = STATUS_PREPARING]

\* KitchenOrder.accept
accept(ord, t) == [ord EXCEPT !.status = STATUS_PREPARING, !.accepted_at = t]

\* mark_ready with the ready_at stamp forgotten.
mark_ready_unstamped(ord, t) == [ord EXCEPT !.status = STATUS_READY]

\* KitchenOrder.mark_ready
mark_ready(ord, t) == [ord EXCEPT !.status = STATUS_READY, !.ready_at = t]

\* mark_served with the served_at stamp forgotten.
mark_served_unstamped(ord, t) == [ord EXCEPT !.status = STATUS_SERVED]

\* KitchenOrder.mark_served
mark_served(ord, t) == [ord EXCEPT !.status = STATUS_SERVED, !.served_at = t]

\* cancel that also clears the timestamps.
cancel_clearing(ord) ==
    [ord EXCEPT !.status = STATUS_CANCELLED, !.accepted_at = Null,
                !.ready_at = Null, !.served_at = Null]

\* KitchenOrder.cancel
cancel(ord) == [ord EXCEPT !.status = STATUS_CANCELLED]

\* Order.recall of the orders module (not part of this module's sources):
\* served -> ready, served_at left as it is.
recall(ord) == [ord EXCEPT !.status = STATUS_READY]

\* The test of _check_order_ready turned from "no item is not ready" into
\* "some item is ready".
some_ready(its, o) == \E j \in ItemsOf(its, o) : its[j].status = STATUS_READY

\* The test of _check_order_ready:
\*   not self.order.items.exclude(status=STATUS_READY).exists()
no_pending(its, o) == ~(\E j \in ItemsOf(its, o) : its[j].status # STATUS_READY)

\* _check_order_ready with the test dropped: the order is always marked ready.
check_order_ready_always(its, ords, o, t) ==
    [ords EXCEPT ![o] = mark_ready(ords[o], t)]

\* KitchenOrderItem._check_order_ready, evaluated on the item table *after*
\* the item's own write: the order table that results.
check_order_ready(its, ords, o, t) ==
    IF no_pending(its, o) THEN [ords EXCEPT ![o] = mark_ready(ords[o], t)] ELSE ords

\* KitchenOrderItem.mark_preparing: the item table that results.
item_mark_preparing(its, i) == [its EXCEPT ![i].status = STATUS_PREPARING]

\* KitchenOrderItem.mark_ready, the item write: the item table that results.
item_mark_ready(its, i) == [its EXCEPT ![i].status = STATUS_READY]

\* The fields of a KitchenConfig row other than auto_accept_orders, at
\* their defaults.
DefaultConfig ==
    [show_timer |-> TRUE,
     warning_time_minutes |-> 15,
     critical_time_minutes |-> 30,
     sound_enabled |-> TRUE,
     stations_enabled |-> FALSE]

\* ------------------------------------------------------------------- Init
Init ==
    /\ stations = << >>
    /\ now = 1
    /\ auto_accept_orders = FALSE
    /\ orders = << >>
    /\ items = << >>
    /\ sale = Idle
    /\ lastCall = NoCall
    /\ readyBy = << >>
    /\ logged = << >>
    /\ config_rows = << >>
    /\ config = DefaultConfig
    /\ reqs = << >>

\* ------------------------------------------------------------ environment
\* Time passes.
Tick ==
    /\ now < MaxTime
    /\ now' = now + 1
    /\ UNCHANGED <<stations, auto_accept_orders, orders, items, sale, lastCall,
                   readyBy, logged, config_rows, reqs, config>>

\* The pk of the one configuration row: get_or_create(pk=1).
CONFIG_PK == 1

\* A row with pk = 1 is in the configuration table.
config_exists(rows) == \E k \in 1..Len(rows) : rows[k] = CONFIG_PK

\* The configuration table after get_config() has run alone, start to end:
\* the row is created when it does not exist.  auto_accept_orders is the
\* field of that row, False on creation.
get_config(rows) == IF config_exists(rows) THEN rows ELSE Append(rows, CONFIG_PK)

\* settings_toggle with name = 'auto_accept_orders'.
settings_toggle(value) ==
    /\ config_rows' = get_config(config_rows)
    /\ auto_accept_orders' = value
    /\ UNCHANGED <<stations, now, orders, items, sale, lastCall, readyBy, logged, reqs,
                   config>>

\* ------------------------------------------------- on_sale_created handler
\* on_sale_created that creates the order pending whatever the
\* configuration says.
on_sale_created_never_accepting(n) ==
    /\ sale.pc = "idle"
    /\ Len(orders) + 1 \in OrderPks
    /\ IF n = 0
       THEN UNCHANGED <<orders, sale, readyBy, config_rows>>
       ELSE /\ config_rows' = get_config(config_rows)
            /\ orders' = Append(orders,
                   [status |-> STATUS_PENDING,
                    created_at |-> now,
                    accepted_at |-> Null,
                    ready_at |-> Null,
                    served_at |-> Null])
            /\ sale' = [pc |-> "items",
                        order |-> Len(orders) + 1,
                        left |-> n,
                        n |-> n,
                        auto |-> auto_accept_orders]
            /\ readyBy' = Append(readyBy, "none")
    /\ UNCHANGED <<stations, now, auto_accept_orders, items, lastCall, logged, reqs,
                   config>>

\* on_sale_created without its early return: an empty item list creates an
\* order too, and the loop over no items ends the call.
on_sale_created_unguarded(n) ==
    /\ sale.pc = "idle"
    /\ Len(orders) + 1 \in OrderPks
    /\ config_rows' = get_config(config_rows)
    /\ orders' = Append(orders,
           [status |-> IF auto_accept_orders THEN STATUS_PREPARING
                                             ELSE STATUS_PENDING,
            created_at |-> now,
            accepted_at |-> Null,
            ready_at |-> Null,
            served_at |-> Null])
    /\ sale' = IF n = 0 THEN Idle
               ELSE [pc |-> IF auto_accept_orders THEN "stamp" ELSE "items",
                     order |-> Len(orders) + 1,
                     left |-> n,
                     n |-> n,
                     auto |-> auto_accept_orders]
    /\ readyBy' = Append(readyBy, "none")
    /\ UNCHANGED <<stations, now, auto_accept_orders, items, lastCall, logged, reqs,
                   config>>

\* on_sale_created up to and including KitchenOrder.objects.create; n is
\* len(items).  An empty item list returns at once.
on_sale_created(n) ==
    /\ sale.pc = "idle"
    /\ Len(orders) + 1 \in OrderPks
    /\ IF n = 0
       THEN UNCHANGED <<orders, sale, readyBy, config_rows>>
       ELSE /\ config_rows' = get_config(config_rows)
            /\ orders' = Append(orders,
                   [status |-> IF auto_accept_orders THEN STATUS_PREPARING
                                                     ELSE STATUS_PENDING,
                    created_at |-> now,
                    accepted_at |-> Null,
                    ready_at |-> Null,
                    served_at |-> Null])
            /\ sale' = [pc |-> IF auto_accept_orders THEN "stamp" ELSE "items",
                        order |-> Len(orders) + 1,
                        left |-> n,
                        n |-> n,
                        auto |-> auto_accept_orders]
            /\ readyBy' = Append(readyBy, "none")
    /\ UNCHANGED <<stations, now, auto_accept_orders, items, lastCall, logged, reqs,
                   config>>

\* kitchen_order.accepted_at = now(); save(update_fields=['accepted_at']).
sale_stamp_accepted ==
    /\ sale.pc = "stamp"
    /\ orders' = [orders EXCEPT ![sale.order].accepted_at = now]
    /\ sale' = [sale EXCEPT !.pc = "items"]
    /\ UNCHANGED <<stations, now, auto_accept_orders, items, lastCall, readyBy, logged,
                   config_rows, reqs, config>>

\* One turn of the loop: KitchenOrderItem.objects.create(order=kitchen_order).
sale_create_item ==
    /\ sale.pc = "items"
    /\ items' = Append(items, [order |-> sale.order, status |-> STATUS_PENDING])
    /\ sale' = IF sale.left = 1 THEN Idle ELSE [sale EXCEPT !.left = sale.left - 1]
    /\ UNCHANGED <<stations, now, auto_accept_orders, orders, lastCall, readyBy, logged,
                   config_rows, reqs, config>>

\* --------------------------------------------------------- order commands
\* The outcome of a command on order o: the JsonResponse's success flag, with
\* the status the handler found on the order when it looked it up.
Reply(op, o, ok) ==
    [op |-> op, order |-> o, before |-> orders[o].status, success |-> ok,
     code |-> IF ok THEN 200 ELSE 400]

\* _log: the one row a command adds to the audit table; item is Null for an
\* order command.  The table is only ever appended to and no command reads
\* it, so the state keeps the rows of the latest command alone.
_log(o, i, action) == <<[order |-> o, item |-> i, action |-> action]>>

\* start_order with the status guard dropped.
start_order_unguarded(o) ==
    /\ o \in OrderIds
    /\ orders' = [orders EXCEPT ![o] = accept(orders[o], now)]
    /\ logged' = _log(o, Null, "started")
    /\ lastCall' = Reply("start", o, TRUE)
    /\ UNCHANGED <<stations, now, auto_accept_orders, items, sale, readyBy,
                   config_rows, reqs, config>>

\* start_order
start_order(o) ==
    /\ o \in OrderIds
    /\ IF orders[o].status # STATUS_PENDING
       THEN /\ lastCall' = Reply("start", o, FALSE)
            /\ logged' = << >>
            /\ UNCHANGED orders
       ELSE /\ orders' = [orders EXCEPT ![o] = accept(orders[o], now)]
            /\ logged' = _log(o, Null, "started")
            /\ lastCall' = Reply("start", o, TRUE)
    /\ UNCHANGED <<stations, now, auto_accept_orders, items, sale, readyBy,
                   config_rows, reqs, config>>

\* bump_order that writes an audit row for a refused bump as well.
bump_order_logging_refusal(o) ==
    /\ o \in OrderIds
    /\ IF orders[o].status = STATUS_PENDING
       THEN /\ orders' = [orders EXCEPT ![o] = accept(orders[o], now)]
            /\ logged' = _log(o, Null, "started")
            /\ lastCall' = Reply("bump", o, TRUE)
       ELSE IF orders[o].status = STATUS_PREPARING
       THEN /\ orders' = [orders EXCEPT ![o] = mark_ready(orders[o], now)]
            /\ logged' = _log(o, Null, "completed")
            /\ lastCall' = Reply("bump", o, TRUE)
       ELSE IF orders[o].status = STATUS_READY
       THEN /\ orders' = [orders EXCEPT ![o] = mark_served(orders[o], now)]
            /\ logged' = _log(o, Null, "served")
            /\ lastCall' = Reply("bump", o, TRUE)
       ELSE /\ lastCall' = Reply("bump", o, FALSE)
            /\ logged' = _log(o, Null, "bumped")
            /\ UNCHANGED orders
    /\ readyBy' = IF orders[o].status = STATUS_PREPARING
                  THEN [readyBy EXCEPT ![o] = "manual"] ELSE readyBy
    /\ UNCHANGED <<stations, now, auto_accept_orders, items, sale, config_rows, reqs,
                   config>>

\* bump_order
bump_order(o) ==
    /\ o \in OrderIds
    /\ IF orders[o].status = STATUS_PENDING
       THEN /\ orders' = [orders EXCEPT ![o] = accept(orders[o], now)]
            /\ logged' = _log(o, Null, "started")
            /\ lastCall' = Reply("bump", o, TRUE)
       ELSE IF orders[o].status = STATUS_PREPARING
       THEN /\ orders' = [orders EXCEPT ![o] = mark_ready(orders[o], now)]
            /\ logged' = _log(o, Null, "completed")
            /\ lastCall' = Reply("bump", o, TRUE)
       ELSE IF orders[o].status = STATUS_READY
       THEN /\ orders' = [orders EXCEPT ![o] = mark_served(orders[o], now)]
            /\ logged' = _log(o, Null, "served")
            /\ lastCall' = Reply("bump", o, TRUE)
       ELSE /\ lastCall' = Reply("bump", o, FALSE)
            /\ logged' = << >>
            /\ UNCHANGED orders
    /\ readyBy' = IF orders[o].status = STATUS_PREPARING
                  THEN [readyBy EXCEPT ![o] = "manual"] ELSE readyBy
    /\ UNCHANGED <<stations, now, auto_accept_orders, items, sale, config_rows, reqs,
                   config>>

\* complete_order with a guard that also lets a ready order through.
complete_order_from_ready(o) ==
    /\ o \in OrderIds
    /\ IF orders[o].status \notin {STATUS_PENDING, STATUS_PREPARING, STATUS_READY}
       THEN /\ lastCall' = Reply("complete", o, FALSE)
            /\ logged' = << >>
            /\ UNCHANGED <<orders, readyBy>>
       ELSE /\ orders' = [orders EXCEPT ![o] = mark_ready(orders[o], now)]
            /\ readyBy' = [readyBy EXCEPT ![o] = "manual"]
            /\ logged' = _log(o, Null, "completed")
            /\ lastCall' = Reply("complete", o, TRUE)
    /\ UNCHANGED <<stations, now, auto_accept_orders, items, sale, config_rows, reqs,
                   config>>

\* complete_order that refuses while an item of the order is not ready.
complete_order_waiting_for_items(o) ==
    /\ o \in OrderIds
    /\ IF \/ orders[o].status \notin {STATUS_PENDING, STATUS_PREPARING}
          \/ ~no_pending(items, o)
       THEN /\ lastCall' = Reply("complete", o, FALSE)
            /\ logged' = << >>
            /\ UNCHANGED <<orders, readyBy>>
       ELSE /\ orders' = [orders EXCEPT ![o] = mark_ready(orders[o], now)]
            /\ readyBy' = [readyBy EXCEPT ![o] = "manual"]
            /\ logged' = _log(o, Null, "completed")
            /\ lastCall' = Reply("complete", o, TRUE)
    /\ UNCHANGED <<stations, now, auto_accept_orders, items, sale, config_rows, reqs,
                   config>>

\* complete_order that also marks every item of the order ready.
complete_order_completing_items(o) ==
    /\ o \in OrderIds
    /\ IF orders[o].status \notin {STATUS_PENDING, STATUS_PREPARING}
       THEN /\ lastCall' = Reply("complete", o, FALSE)
            /\ logged' = << >>
            /\ UNCHANGED <<orders, readyBy, items>>
       ELSE /\ orders' = [orders EXCEPT ![o] = mark_ready(orders[o], now)]
            /\ items' = [i \in ItemIds |->
                            IF items[i].order = o
                            THEN [items[i] EXCEPT !.status = STATUS_READY]
                            ELSE items[i]]
            /\ readyBy' = [readyBy EXCEPT ![o] = "manual"]
            /\ logged' = _log(o, Null, "completed")
            /\ lastCall' = Reply("complete", o, TRUE)
    /\ UNCHANGED <<stations, now, auto_accept_orders, sale, config_rows, reqs,
                   config>>

\* complete_order
complete_order(o) ==
    /\ o \in OrderIds
    /\ IF orders[o].status \notin {STATUS_PENDING, STATUS_PREPARING}
       THEN /\ lastCall' = Reply("complete", o, FALSE)
            /\ logged' = << >>
            /\ UNCHANGED <<orders, readyBy>>
       ELSE /\ orders' = [orders EXCEPT ![o] = mark_ready(orders[o], now)]
            /\ readyBy' = [readyBy EXCEPT ![o] = "manual"]
            /\ logged' = _log(o, Null, "completed")
            /\ lastCall' = Reply("complete", o, TRUE)
    /\ UNCHANGED <<stations, now, auto_accept_orders, items, sale, config_rows, reqs,
                   config>>

\* serve_order
serve_order(o) ==
    /\ o \in OrderIds
    /\ IF orders[o].status # STATUS_READY
       THEN /\ lastCall' = Reply("serve", o, FALSE)
            /\ logged' = << >>
            /\ UNCHANGED orders
       ELSE /\ orders' = [orders EXCEPT ![o] = mark_served(orders[o], now)]
            /\ logged' = _log(o, Null, "served")
            /\ lastCall' = Reply("serve", o, TRUE)
    /\ UNCHANGED <<stations, now, auto_accept_orders, items, sale, readyBy,
                   config_rows, reqs, config>>

\* recall_order with a guard that also lets a cancelled order through.
recall_order_from_cancelled(o) ==
    /\ o \in OrderIds
    /\ IF orders[o].status \notin {STATUS_SERVED, STATUS_CANCELLED}
       THEN /\ lastCall' = Reply("recall", o, FALSE)
            /\ logged' = << >>
            /\ UNCHANGED <<orders, readyBy>>
       ELSE /\ orders' = [orders EXCEPT ![o] = recall(orders[o])]
            /\ readyBy' = [readyBy EXCEPT ![o] = "manual"]
            /\ logged' = _log(o, Null, "recalled")
            /\ lastCall' = Reply("recall", o, TRUE)
    /\ UNCHANGED <<stations, now, auto_accept_orders, items, sale, config_rows, reqs,
                   config>>

\* recall_order
recall_order(o) ==
    /\ o \in OrderIds
    /\ IF orders[o].status # STATUS_SERVED
       THEN /\ lastCall' = Reply("recall", o, FALSE)
            /\ logged' = << >>
            /\ UNCHANGED <<orders, readyBy>>
       ELSE /\ orders' = [orders EXCEPT ![o] = recall(orders[o])]
            /\ readyBy' = [readyBy EXCEPT ![o] = "manual"]
            /\ logged' = _log(o, Null, "recalled")
            /\ lastCall' = Reply("recall", o, TRUE)
    /\ UNCHANGED <<stations, now, auto_accept_orders, items, sale, config_rows, reqs,
                   config>>

\* cancel_order ('paid' is a status no transition of this module produces)
cancel_order(o) ==
    /\ o \in OrderIds
    /\ IF orders[o].status \in {STATUS_SERVED, "paid", STATUS_CANCELLED}
       THEN /\ lastCall' = Reply("cancel", o, FALSE)
            /\ logged' = << >>
            /\ UNCHANGED orders
       ELSE /\ orders' = [orders EXCEPT ![o] = cancel(orders[o])]
            /\ logged' = _log(o, Null, "cancelled")
            /\ lastCall' = Reply("cancel", o, TRUE)
    /\ UNCHANGED <<stations, now, auto_accept_orders, items, sale, readyBy,
                   config_rows, reqs, config>>

\* ---------------------------------------------------------- item commands
\* bump_item: item.mark_ready(), that is the item write followed by
\* _check_order_ready on the written table.
bump_item(i) ==
    /\ i \in ItemIds
    /\ items' = item_mark_ready(items, i)
    /\ orders' = check_order_ready(items', orders, items[i].order, now)
    /\ readyBy' = IF no_pending(items', items[i].order)
                  THEN [readyBy EXCEPT ![items[i].order] = "auto"] ELSE readyBy
    /\ logged' = _log(items[i].order, i, "item_bumped")
    /\ lastCall' = Reply("bump_item", items[i].order, TRUE)
    /\ UNCHANGED <<stations, now, auto_accept_orders, sale, config_rows, reqs, config>>

\* mark_preparing that also accepts the owning order.
mark_preparing_accepting(i) ==
    /\ i \in ItemIds
    /\ items' = item_mark_preparing(items, i)
    /\ orders' = [orders EXCEPT ![items[i].order] = accept(orders[items[i].order], now)]
    /\ logged' = << >>
    /\ lastCall' = Reply("mark_preparing", items[i].order, TRUE)
    /\ UNCHANGED <<stations, now, auto_accept_orders, sale, readyBy, config_rows, reqs,
                   config>>

\* KitchenOrderItem.mark_preparing called on item i.
mark_preparing(i) ==
    /\ i \in ItemIds
    /\ items' = item_mark_preparing(items, i)
    /\ logged' = << >>
    /\ lastCall' = Reply("mark_preparing", items[i].order, TRUE)
    /\ UNCHANGED <<stations, now, auto_accept_orders, orders, sale, readyBy,
                   config_rows, reqs, config>>

\* Any one write of on_sale_created.
on_sale_created_step ==
    \/ \E n \in 0..MaxItems : on_sale_created(n)
    \/ sale_stamp_accepted
    \/ sale_create_item

\* ------------------------------------------------------------------- Next
Next ==
    \/ Tick
    \/ \E value \in BOOLEAN : settings_toggle(value)
    \/ on_sale_created_step
    \/ \E o \in OrderIds : start_order(o)
    \/ \E o \in OrderIds : bump_order(o)
    \/ \E o \in OrderIds : complete_order(o)
    \/ \E o \in OrderIds : serve_order(o)
    \/ \E o \in OrderIds : recall_order(o)
    \/ \E o \in OrderIds : cancel_order(o)
    \/ \E i \in ItemIds : bump_item(i)
    \/ \E i \in ItemIds : mark_preparing(i)

Spec == Init /\ [][Next]_vars

\* ------------------------------------------------- requests side by side
\* No view and no model method opens a transaction, so every save() and
\* every query of a request is committed or answered on its own, and the
\* statements of requests that run at the same time interleave.  SpecConc
\* runs up to MaxRequests requests statement by statement, from a stored
\* state the commands above can produce.
ReqIds == 1..Len(reqs)

\* A bump_item request on item i, about to run; pending is its local
\* variable of _check_order_ready, unread before the check assigns it.
BumpItemRequest(i) ==
    [kind |-> "bump_item", pc |-> "write", item |-> i, pending |-> TRUE]

\* A KitchenConfig.get_config() call, about to run; created is the flag
\* get_or_create returns, conflict records that its INSERT was refused.
GetConfigRequest ==
    [kind |-> "get_config", pc |-> "get", created |-> FALSE,
     conflict |-> FALSE, result |-> Null]

\* Either the configuration table is still empty, and then no sale has been
\* handled and there is no order, or the row exists and one order with at
\* least one item that is not ready is on the board.
InitConc ==
    /\ stations = << >>
    /\ now = 1
    /\ config = DefaultConfig
    /\ auto_accept_orders = FALSE
    /\ sale = Idle
    /\ lastCall = NoCall
    /\ logged = << >>
    /\ \/ /\ config_rows = << >>
          /\ orders = << >>
          /\ items = << >>
          /\ readyBy = << >>
          /\ \E n \in 1..MaxRequests : reqs = [r \in 1..n |-> GetConfigRequest]
       \/ /\ config_rows = <<CONFIG_PK>>
          /\ \E st \in {STATUS_PENDING, STATUS_PREPARING} :
                orders = <<[status |-> st,
                            created_at |-> now,
                            accepted_at |-> IF st = STATUS_PREPARING THEN now ELSE Null,
                            ready_at |-> Null,
                            served_at |-> Null]>>
          /\ readyBy = <<"none">>
          /\ \E k \in 1..MaxItems :
                /\ items \in [1..k -> [order : OrderPks, status : ItemStatuses]]
                /\ ~AllReady(items, 1)
                /\ \E n \in 1..MaxRequests :
                      reqs \in [1..n -> {BumpItemRequest(i) : i \in 1..k}
                                          \cup {GetConfigRequest}]

\* item.status = STATUS_READY; item.save(update_fields=[...]).
bump_item_write(r) ==
    /\ r \in ReqIds
    /\ reqs[r].kind = "bump_item"
    /\ reqs[r].pc = "write"
    /\ items' = item_mark_ready(items, reqs[r].item)
    /\ reqs' = [reqs EXCEPT ![r].pc = "check"]
    /\ UNCHANGED <<stations, now, auto_accept_orders, orders, sale, lastCall, readyBy,
                   logged, config_rows, config>>

\* The all-ready check run as if each request were one transaction: the
\* item write of a request that has not completed is not yet seen by the
\* check of another request.
bump_item_check_isolated(r) ==
    /\ r \in ReqIds
    /\ reqs[r].kind = "bump_item"
    /\ reqs[r].pc = "check"
    /\ LET o == items[reqs[r].item].order
           hidden == {reqs[q].item : q \in {q \in ReqIds \ {r} :
                         /\ reqs[q].kind = "bump_item"
                         /\ reqs[q].pc \in {"check", "mark", "log"}}}
           none == no_pending(items, o) /\ hidden \cap ItemsOf(items, o) = {}
       IN  reqs' = [reqs EXCEPT ![r].pending = ~none,
                                ![r].pc = IF none THEN "mark" ELSE "log"]
    /\ UNCHANGED <<stations, now, auto_accept_orders, orders, items, sale, lastCall,
                   readyBy, logged, config_rows, config>>

\* pending = self.order.items.exclude(status=STATUS_READY).exists(), read
\* from the item table as it is stored when the query runs.
bump_item_check(r) ==
    /\ r \in ReqIds
    /\ reqs[r].kind = "bump_item"
    /\ reqs[r].pc = "check"
    /\ LET o == items[reqs[r].item].order
       IN  reqs' = [reqs EXCEPT ![r].pending = ~no_pending(items, o),
                                ![r].pc = IF no_pending(items, o) THEN "mark"
                                                                  ELSE "log"]
    /\ UNCHANGED <<stations, now, auto_accept_orders, orders, items, sale, lastCall,
                   readyBy, logged, config_rows, config>>

\* if not pending: self.order.mark_ready().
bump_item_mark(r) ==
    /\ r \in ReqIds
    /\ reqs[r].kind = "bump_item"
    /\ reqs[r].pc = "mark"
    /\ LET o == items[reqs[r].item].order
       IN  /\ orders' = [orders EXCEPT ![o] = mark_ready(orders[o], now)]
           /\ readyBy' = [readyBy EXCEPT ![o] = "auto"]
    /\ reqs' = [reqs EXCEPT ![r].pc = "log"]
    /\ UNCHANGED <<stations, now, auto_accept_orders, items, sale, lastCall, logged,
                   config_rows, config>>

\* _log(hub, item.order, 'item_bumped', ...) and the answer of bump_item.
bump_item_log(r) ==
    /\ r \in ReqIds
    /\ reqs[r].kind = "bump_item"
    /\ reqs[r].pc = "log"
    /\ logged' = _log(items[reqs[r].item].order, reqs[r].item, "item_bumped")
    /\ lastCall' = Reply("bump_item", items[reqs[r].item].order, TRUE)
    /\ reqs' = [reqs EXCEPT ![r].pc = "done"]
    /\ UNCHANGED <<stations, now, auto_accept_orders, orders, items, sale, readyBy,
                   config_rows, config>>

\* get_or_create(pk=1), first statement: SELECT the row with pk = 1.
get_config_get(r) ==
    /\ r \in ReqIds
    /\ reqs[r].kind = "get_config"
    /\ reqs[r].pc = "get"
    /\ reqs' = IF config_exists(config_rows)
               THEN [reqs EXCEPT ![r].pc = "done", ![r].result = CONFIG_PK]
               ELSE [reqs EXCEPT ![r].pc = "create"]
    /\ UNCHANGED <<stations, now, auto_accept_orders, orders, items, sale, lastCall,
                   readyBy, logged, config_rows, config>>

\* get_or_create's INSERT with the primary key left unchecked: the row is
\* added even when a row with pk = 1 is there.
get_config_create_unchecked(r) ==
    /\ r \in ReqIds
    /\ reqs[r].kind = "get_config"
    /\ reqs[r].pc = "create"
    /\ config_rows' = Append(config_rows, CONFIG_PK)
    /\ reqs' = [reqs EXCEPT ![r].pc = "done", ![r].created = TRUE,
                            ![r].result = CONFIG_PK]
    /\ UNCHANGED <<stations, now, auto_accept_orders, orders, items, sale, lastCall,
                   readyBy, logged, config>>

\* get_or_create(pk=1) after the SELECT found nothing: INSERT the row.  pk
\* is the primary key, so the INSERT is refused (IntegrityError) when a row
\* with pk = 1 has been stored meanwhile, and get_or_create then selects
\* again.
get_config_create(r) ==
    /\ r \in ReqIds
    /\ reqs[r].kind = "get_config"
    /\ reqs[r].pc = "create"
    /\ IF config_exists(config_rows)
       THEN /\ reqs' = [reqs EXCEPT ![r].pc = "reget", ![r].conflict = TRUE]
            /\ UNCHANGED config_rows
       ELSE /\ config_rows' = Append(config_rows, CONFIG_PK)
            /\ reqs' = [reqs EXCEPT ![r].pc = "done", ![r].created = TRUE,
                                    ![r].result = CONFIG_PK]
    /\ UNCHANGED <<stations, now, auto_accept_orders, orders, items, sale, lastCall,
                   readyBy, logged, config>>

\* get_or_create(pk=1) after a refused INSERT: SELECT again; the call
\* raises when the row is still not found.
get_config_reget(r) ==
    /\ r \in ReqIds
    /\ reqs[r].kind = "get_config"
    /\ reqs[r].pc = "reget"
    /\ reqs' = IF config_exists(config_rows)
               THEN [reqs EXCEPT ![r].pc = "done", ![r].result = CONFIG_PK]
               ELSE [reqs EXCEPT ![r].pc = "error"]
    /\ UNCHANGED <<stations, now, auto_accept_orders, orders, items, sale, lastCall,
                   readyBy, logged, config_rows, config>>

NextConc ==
    \/ \E r \in ReqIds : bump_item_write(r)
    \/ \E r \in ReqIds : bump_item_check(r)
    \/ \E r \in ReqIds : bump_item_mark(r)
    \/ \E r \in ReqIds : bump_item_log(r)
    \/ \E r \in ReqIds : get_config_get(r)
    \/ \E r \in ReqIds : get_config_create(r)
    \/ \E r \in ReqIds : get_config_reget(r)

SpecConc == InitConc /\ [][NextConc]_vars

\* ------------------------------------------- commands with their lookup
\* Every command view first looks its target up with
\*   get_object_or_404(Order, pk=order_id, hub_id=hub, is_deleted=False)
\* and answers 404 when there is no such row.  In Spec every order is a live
\* order of the caller's hub, so the lookup finds it.  SpecCmd runs the
\* commands, set_priority among them, on a stored order that may belong to
\* another hub or be soft-deleted (hub_id, is_deleted and priority are
\* columns of the core's order table), and with ids that name no row.
Hubs == {1, 2}

Priorities == {"normal", "rush", "vip"}

\* The lookup with the hub filter forgotten.
get_object_or_404_any_hub(rows, pk, hub) ==
    IF /\ pk \in 1..Len(rows)
       /\ ~rows[pk].is_deleted
    THEN pk ELSE Null

\* The pk of the row the lookup finds, Null when it raises Http404.
get_object_or_404(rows, pk, hub) ==
    IF /\ pk \in 1..Len(rows)
       /\ rows[pk].hub_id = hub
       /\ ~rows[pk].is_deleted
    THEN pk ELSE Null

\* get_object_or_404(OrderItem, pk=item_id, order__hub_id=hub,
\* is_deleted=False).
get_item_or_404(its, rows, pk, hub) ==
    IF /\ pk \in 1..Len(its)
       /\ rows[its[pk].order].hub_id = hub
       /\ ~its[pk].is_deleted
    THEN pk ELSE Null

\* The 404 answer to a request of hub that named pk: nothing is written.
Http404(op, hub, pk) ==
    /\ lastCall' = [op |-> op, order |-> Null, before |-> "none",
                    success |-> FALSE, code |-> 404, hub |-> hub, pk |-> pk]
    /\ logged' = << >>
    /\ UNCHANGED <<stations, now, auto_accept_orders, orders, items, sale, readyBy,
                   config_rows, reqs, config>>

\* set_priority with the audit row forgotten.
set_priority_unlogged(o, priority) ==
    /\ o \in OrderIds
    /\ IF priority \notin Priorities
       THEN /\ lastCall' = Reply("set_priority", o, FALSE)
            /\ logged' = << >>
            /\ UNCHANGED orders
       ELSE /\ orders' = [orders EXCEPT ![o].priority = priority]
            /\ logged' = << >>
            /\ lastCall' = Reply("set_priority", o, TRUE)
    /\ UNCHANGED <<stations, now, auto_accept_orders, items, sale, readyBy,
                   config_rows, reqs, config>>

\* set_priority that takes any value for a priority.
set_priority_unchecked(o, priority) ==
    /\ o \in OrderIds
    /\ orders' = [orders EXCEPT ![o].priority = priority]
    /\ logged' = _log(o, Null, "priority_changed")
    /\ lastCall' = Reply("set_priority", o, TRUE)
    /\ UNCHANGED <<stations, now, auto_accept_orders, items, sale, readyBy,
                   config_rows, reqs, config>>

\* set_priority, after its lookup.
set_priority(o, priority) ==
    /\ o \in OrderIds
    /\ IF priority \notin Priorities
       THEN /\ lastCall' = Reply("set_priority", o, FALSE)
            /\ logged' = << >>
            /\ UNCHANGED orders
       ELSE /\ orders' = [orders EXCEPT ![o].priority = priority]
            /\ logged' = _log(o, Null, "priority_changed")
            /\ lastCall' = Reply("set_priority", o, TRUE)
    /\ UNCHANGED <<stations, now, auto_accept_orders, items, sale, readyBy,
                   config_rows, reqs, config>>

\* The views, lookup included.
start_order_view(hub, pk) ==
    IF get_object_or_404(orders, pk, hub) = Null THEN Http404("start", hub, pk)
    ELSE start_order(pk)

bump_order_view(hub, pk) ==
    IF get_object_or_404(orders, pk, hub) = Null THEN Http404("bump", hub, pk)
    ELSE bump_order(pk)

complete_order_view(hub, pk) ==
    IF get_object_or_404(orders, pk, hub) = Null THEN Http404("complete", hub, pk)
    ELSE complete_order(pk)

serve_order_view(hub, pk) ==
    IF get_object_or_404(orders, pk, hub) = Null THEN Http404("serve", hub, pk)
    ELSE serve_order(pk)

recall_order_view(hub, pk) ==
    IF get_object_or_404(orders, pk, hub) = Null THEN Http404("recall", hub, pk)
    ELSE recall_order(pk)

cancel_order_view(hub, pk) ==
    IF get_object_or_404(orders, pk, hub) = Null THEN Http404("cancel", hub, pk)
    ELSE cancel_order(pk)

set_priority_view(hub, pk, priority) ==
    IF get_object_or_404(orders, pk, hub) = Null THEN Http404("set_priority", hub, pk)
    ELSE set_priority(pk, priority)

bump_item_view(hub, pk) ==
    IF get_item_or_404(items, orders, pk, hub) = Null THEN Http404("bump_item", hub, pk)
    ELSE bump_item(pk)

\* The ids a request may name: those of the rows and one that names none.
OrderArgs == 1..(Len(orders) + 1)

ItemArgs == 1..(Len(items) + 1)

\* The values a set_priority request may carry: the three priorities and
\* one that is none of them.
PriorityArgs == Priorities \cup {"urgent"}

\* The timestamps of a stored order that came to its status by the forward
\* transitions (a cancelled one straight from pending).
Stamps(st) ==
    [accepted_at |-> IF st \in {STATUS_PREPARING, STATUS_READY, STATUS_SERVED}
                     THEN 1 ELSE Null,
     ready_at |-> IF st \in {STATUS_READY, STATUS_SERVED} THEN 1 ELSE Null,
     served_at |-> IF st = STATUS_SERVED THEN 1 ELSE Null]

\* One stored order, of either hub, live or soft-deleted, in any status,
\* with up to MaxItems pending items, live or soft-deleted.
InitCmd ==
    /\ stations = << >>
    /\ now = 1
    /\ config = DefaultConfig
    /\ auto_accept_orders = FALSE
    /\ sale = Idle
    /\ lastCall = NoCall
    /\ logged = << >>
    /\ config_rows = <<CONFIG_PK>>
    /\ reqs = << >>
    /\ readyBy = <<"none">>
    /\ \E hub \in Hubs, del \in BOOLEAN, st \in OrderStatuses :
          orders = <<[status |-> st,
                      created_at |-> 1,
                      accepted_at |-> Stamps(st).accepted_at,
                      ready_at |-> Stamps(st).ready_at,
                      served_at |-> Stamps(st).served_at,
                      hub_id |-> hub,
                      is_deleted |-> del,
                      priority |-> "normal"]>>
    /\ \E k \in 1..MaxItems :
          items \in [1..k -> [order : {1}, status : {STATUS_PENDING},
                              is_deleted : BOOLEAN]]

NextCmd ==
    \/ \E hub \in Hubs, pk \in OrderArgs : start_order_view(hub, pk)
    \/ \E hub \in Hubs, pk \in OrderArgs : bump_order_view(hub, pk)
    \/ \E hub \in Hubs, pk \in OrderArgs : complete_order_view(hub, pk)
    \/ \E hub \in Hubs, pk \in OrderArgs : serve_order_view(hub, pk)
    \/ \E hub \in Hubs, pk \in OrderArgs : recall_order_view(hub, pk)
    \/ \E hub \in Hubs, pk \in OrderArgs : cancel_order_view(hub, pk)
    \/ \E hub \in Hubs, pk \in OrderArgs, priority \in PriorityArgs :
          set_priority_view(hub, pk, priority)
    \/ \E hub \in Hubs, pk \in ItemArgs : bump_item_view(hub, pk)

SpecCmd == InitCmd /\ [][NextCmd]_vars

\* ------------------------------------------------------ the polling views
\* api_orders_list and api_order_count are queries on the order table.
\* SpecBoard runs them on every table of up to MaxOrders orders, of either
\* hub, live or soft-deleted, in any status and priority.
\* The answer of a query of hub.
Answer(op, hub, body) ==
    [op |-> op, order |-> Null, before |-> "none", success |-> TRUE,
     code |-> 200, hub |-> hub, body |-> body]

\* The rows a query of hub filters on: hub_id=hub, is_deleted=False, and the
\* status among sts.
filter(rows, hub, sts) ==
    {o \in 1..Len(rows) : /\ rows[o].hub_id = hub
                          /\ ~rows[o].is_deleted
                          /\ rows[o].status \in sts}

\* priority is a text column: ORDER BY compares 'normal' < 'rush' < 'vip' as
\* strings.
PriorityKey(p) == CASE p = "normal" -> 1 [] p = "rush" -> 2 [] p = "vip" -> 3

\* order_by with the priority ascending.
order_by_ascending(rows, S) ==
    {s \in [1..Cardinality(S) -> S] :
        /\ \A a, b \in 1..Cardinality(S) : a # b => s[a] # s[b]
        /\ \A a, b \in 1..Cardinality(S) :
              a < b => \/ PriorityKey(rows[s[a]].priority) <
                             PriorityKey(rows[s[b]].priority)
                       \/ /\ rows[s[a]].priority = rows[s[b]].priority
                          /\ rows[s[a]].created_at <= rows[s[b]].created_at}

\* order_by('-priority', 'created_at') on the rows S: the sequences the
\* database may return.  Rows equal in both keys come in either order.
order_by(rows, S) ==
    {s \in [1..Cardinality(S) -> S] :
        /\ \A a, b \in 1..Cardinality(S) : a # b => s[a] # s[b]
        /\ \A a, b \in 1..Cardinality(S) :
              a < b => \/ PriorityKey(rows[s[a]].priority) >
                             PriorityKey(rows[s[b]].priority)
                       \/ /\ rows[s[a]].priority = rows[s[b]].priority
                          /\ rows[s[a]].created_at <= rows[s[b]].created_at}

\* api_orders_list, without a station filter: the pks in the order listed.
api_orders_list(hub) ==
    /\ \E s \in order_by(orders,
                  filter(orders, hub, {STATUS_PENDING, STATUS_PREPARING})) :
          lastCall' = Answer("api_orders_list", hub, s)
    /\ logged' = << >>
    /\ UNCHANGED <<stations, now, auto_accept_orders, orders, items, sale, readyBy,
                   config_rows, config, reqs>>

\* The counts of api_order_count with ready counted into the total.
order_count_with_ready(rows, hub) ==
    LET pending == Cardinality(filter(rows, hub, {STATUS_PENDING}))
        preparing == Cardinality(filter(rows, hub, {STATUS_PREPARING}))
        ready == Cardinality(filter(rows, hub, {STATUS_READY}))
    IN  [pending |-> pending, preparing |-> preparing, ready |-> ready,
         total |-> pending + preparing + ready]

\* The counts of api_order_count.
order_count(rows, hub) ==
    LET pending == Cardinality(filter(rows, hub, {STATUS_PENDING}))
        preparing == Cardinality(filter(rows, hub, {STATUS_PREPARING}))
        ready == Cardinality(filter(rows, hub, {STATUS_READY}))
    IN  [pending |-> pending, preparing |-> preparing, ready |-> ready,
         total |-> pending + preparing]

\* api_order_count
api_order_count(hub) ==
    /\ lastCall' = Answer("api_order_count", hub, order_count(orders, hub))
    /\ logged' = << >>
    /\ UNCHANGED <<stations, now, auto_accept_orders, orders, items, sale, readyBy,
                   config_rows, config, reqs>>

\* The creation times of the orders on the board: an earlier and a later one.
CreatedAts == {1, 2}

InitBoard ==
    /\ stations = << >>
    /\ now = 2
    /\ auto_accept_orders = FALSE
    /\ sale = Idle
    /\ lastCall = NoCall
    /\ logged = << >>
    /\ config_rows = <<CONFIG_PK>>
    /\ config = DefaultConfig
    /\ reqs = << >>
    /\ items = << >>
    /\ \E n \in 0..MaxOrders :
          /\ readyBy = [o \in 1..n |-> "none"]
          /\ \E hub \in [1..n -> Hubs], del \in [1..n -> BOOLEAN],
                st \in [1..n -> OrderStatuses], p \in [1..n -> Priorities],
                at \in [1..n -> CreatedAts] :
                orders = [o \in 1..n |->
                            [status |-> st[o],
                             created_at |-> at[o],
                             accepted_at |-> Stamps(st[o]).accepted_at,
                             ready_at |-> Stamps(st[o]).ready_at,
                             served_at |-> Stamps(st[o]).served_at,
                             hub_id |-> hub[o],
                             is_deleted |-> del[o],
                             priority |-> p[o]]]

NextBoard ==
    \/ \E hub \in Hubs : api_orders_list(hub)
    \/ \E hub \in Hubs : api_order_count(hub)

SpecBoard == InitBoard /\ [][NextBoard]_vars

\* ------------------------------------------------------- the timer colour
\* status_class is read when an order card is rendered.  SpecClass reads it
\* on one stored order in any status, created up to MaxTime ticks before the
\* clock's start, under every pair of thresholds up to MaxTime minutes.
\* int(a / b) of Python: the quotient truncated towards zero.
truncate(a, b) == IF a >= 0 THEN a \div b ELSE -((-a) \div b)

\* KitchenOrder.elapsed_minutes at time t; the clock ticks every 30 seconds.
elapsed_minutes(ord, t) == truncate((t - ord.created_at) * 30, 60)

\* status_class with the warning threshold looked at first.
status_class_warning_first(ord, t, cfg) ==
    IF ord.status \in {STATUS_READY, STATUS_SERVED, STATUS_CANCELLED} THEN ""
    ELSE IF elapsed_minutes(ord, t) >= cfg.warning_time_minutes THEN "warning"
    ELSE IF elapsed_minutes(ord, t) >= cfg.critical_time_minutes THEN "critical"
    ELSE ""

\* KitchenOrder.status_class at time t under the configuration row cfg.
status_class(ord, t, cfg) ==
    IF ord.status \in {STATUS_READY, STATUS_SERVED, STATUS_CANCELLED} THEN ""
    ELSE IF elapsed_minutes(ord, t) >= cfg.critical_time_minutes THEN "critical"
    ELSE IF elapsed_minutes(ord, t) >= cfg.warning_time_minutes THEN "warning"
    ELSE ""

\* A read of order o's status_class.  For an order that is not ready, served
\* or cancelled it goes through get_config(), which creates the
\* configuration row when there is none.
status_class_get(o) ==
    /\ config_rows' =
          IF orders[o].status \in {STATUS_READY, STATUS_SERVED, STATUS_CANCELLED}
          THEN config_rows ELSE get_config(config_rows)
    /\ lastCall' = [Answer("status_class", Null,
                           status_class(orders[o], now, config))
                      EXCEPT !.order = o]
    /\ logged' = << >>
    /\ UNCHANGED <<stations, now, auto_accept_orders, orders, items, sale, readyBy,
                   config, reqs>>

\* One stored order; either no configuration row yet, and the defaults a
\* created one gets, or a row with any two thresholds.
InitClass ==
    /\ stations = << >>
    /\ now = 1
    /\ auto_accept_orders = FALSE
    /\ sale = Idle
    /\ lastCall = NoCall
    /\ logged = << >>
    /\ reqs = << >>
    /\ items = << >>
    /\ readyBy = <<"none">>
    /\ \E st \in OrderStatuses, at \in (-MaxTime)..1 :
          orders = <<[status |-> st,
                      created_at |-> at,
                      accepted_at |-> Stamps(st).accepted_at,
                      ready_at |-> Stamps(st).ready_at,
                      served_at |-> Stamps(st).served_at]>>
    /\ \/ /\ config_rows = << >>
          /\ config = DefaultConfig
       \/ /\ config_rows = <<CONFIG_PK>>
          /\ \E w \in 0..MaxTime, c \in 0..MaxTime :
                config = [DefaultConfig EXCEPT !.warning_time_minutes = w,
                                               !.critical_time_minutes = c]

NextClass ==
    \/ Tick
    \/ \E o \in OrderIds : status_class_get(o)

SpecClass == InitClass /\ [][NextClass]_vars

\* ------------------------------------------------------ the settings views
\* settings_save takes a JSON body, settings_input a form with a name and a
\* value.  SpecSettings runs each on one request, drawn with its body, and
\* on a configuration row that either does not exist yet or holds values
\* that are not the defaults.
\* A value of a JSON body or of a form: a boolean (n is 1 or 0), an integer
\* n, a string s of characters, null / None, or the float infinity that
\* json.loads makes of Infinity and of 1e999.
JsonBool(b) == [kind |-> "bool", n |-> IF b THEN 1 ELSE 0, s |-> << >>]

JsonInt(n) == [kind |-> "int", n |-> n, s |-> << >>]

JsonStr(s) == [kind |-> "str", n |-> 0, s |-> s]

JsonNull == [kind |-> "null", n |-> 0, s |-> << >>]

JsonInf == [kind |-> "inf", n |-> 0, s |-> << >>]

\* No value at all: the field is not in the body or the form.
Absent == [kind |-> "absent", n |-> 0, s |-> << >>]

\* The decimal digits, by value + 1.
Digits == <<"0", "1", "2", "3", "4", "5", "6", "7", "8", "9">>

DigitValue(c) == (CHOOSE k \in 1..Len(Digits) : Digits[k] = c) - 1

IsDigits(s) ==
    /\ s # << >>
    /\ \A k \in 1..Len(s) : \E d \in 1..Len(Digits) : Digits[d] = s[k]

\* The number a string of digits writes.
RECURSIVE atoi(_)
atoi(s) ==
    IF s = << >> THEN 0
    ELSE atoi(SubSeq(s, 1, Len(s) - 1)) * 10 + DigitValue(s[Len(s)])

\* int(v) of Python: the number, or the exception raised.  A string is
\* taken as unsigned digits, which is all the strings drawn here are when
\* they parse at all.
py_int(v) ==
    CASE v.kind = "bool" -> [exc |-> "none", n |-> v.n]
      [] v.kind = "int" -> [exc |-> "none", n |-> v.n]
      [] v.kind = "str" ->
            IF IsDigits(v.s) THEN [exc |-> "none", n |-> atoi(v.s)]
            ELSE [exc |-> "ValueError", n |-> 0]
      [] v.kind = "null" -> [exc |-> "TypeError", n |-> 0]
      [] v.kind = "inf" -> [exc |-> "OverflowError", n |-> 0]

\* bool(v) of Python.
py_bool(v) ==
    CASE v.kind = "bool" -> v.n = 1
      [] v.kind = "int" -> v.n # 0
      [] v.kind = "str" -> v.s # << >>
      [] v.kind = "null" -> FALSE
      [] v.kind = "inf" -> TRUE

\* The two field lists of settings_save, settings_toggle and settings_input.
boolean_fields ==
    {"auto_accept_orders", "show_timer", "sound_enabled", "sound_on_new_order",
     "sound_on_rush", "auto_bump_enabled", "color_coding_enabled"}

numeric_fields ==
    {"warning_time_minutes", "critical_time_minutes", "items_per_page",
     "auto_refresh_seconds", "auto_bump_delay"}

\* The settings a request body may name here: the six of the configuration
\* row.
BooleanSettings ==
    {"auto_accept_orders", "show_timer", "sound_enabled", "stations_enabled"}

NumericSettings == {"warning_time_minutes", "critical_time_minutes"}

\* The value of setting f in the configuration row.
Setting(f, auto, cfg) == IF f = "auto_accept_orders" THEN auto ELSE cfg[f]

\* The response of a settings view.
SettingsReply(op, code) ==
    [op |-> op, order |-> Null, before |-> "none", success |-> code < 400,
     code |-> code]

\* Field f after the two loops of settings_save have run on data.
saved(f, old, data) ==
    IF f \in DOMAIN data /\ f \in boolean_fields THEN py_bool(data[f])
    ELSE IF f \in DOMAIN data /\ f \in numeric_fields
            /\ py_int(data[f]).exc = "none" THEN py_int(data[f]).n
    ELSE old

\* json.loads that takes any body for an empty object.
json_loads_lenient(req) == "none"

\* json.loads(request.body): the exception raised, if any.  Bytes that are
\* not UTF-8 raise UnicodeDecodeError, text that is not JSON raises
\* JSONDecodeError.
json_loads(req) ==
    IF ~req.decoded THEN "UnicodeDecodeError"
    ELSE IF ~req.valid THEN "JSONDecodeError"
    ELSE "none"

\* settings_save on request r.  A body that is not JSON is answered with
\* 400 before the configuration is fetched; any other exception of
\* json.loads leaves the view unhandled.  An exception of int() other
\* than ValueError and TypeError leaves the view before config.save().
settings_save(r) ==
    /\ reqs[r].kind = "settings_save"
    /\ reqs[r].pc = "start"
    /\ reqs' = [reqs EXCEPT ![r].pc = "done"]
    /\ LET data == reqs[r].data
           raised == \E f \in DOMAIN data \cap numeric_fields :
                        py_int(data[f]).exc \notin
                            {"none", "ValueError", "TypeError"}
       IN  IF json_loads(reqs[r]) = "JSONDecodeError"
           THEN /\ lastCall' = SettingsReply("settings_save", 400)
                /\ UNCHANGED <<config_rows, config, auto_accept_orders>>
           ELSE IF json_loads(reqs[r]) # "none"
           THEN /\ lastCall' = SettingsReply("settings_save", 500)
                /\ UNCHANGED <<config_rows, config, auto_accept_orders>>
           ELSE IF raised
           THEN /\ config_rows' = get_config(config_rows)
                /\ lastCall' = SettingsReply("settings_save", 500)
                /\ UNCHANGED <<config, auto_accept_orders>>
           ELSE /\ config_rows' = get_config(config_rows)
                /\ auto_accept_orders' =
                      saved("auto_accept_orders", auto_accept_orders, data)
                /\ config' = [f \in DOMAIN config |-> saved(f, config[f], data)]
                /\ lastCall' = SettingsReply("settings_save", 200)
    /\ UNCHANGED <<stations, now, orders, items, sale, readyBy, logged>>

\* settings_input on request r: always answered with 204.
settings_input(r) ==
    /\ reqs[r].kind = "settings_input"
    /\ reqs[r].pc = "start"
    /\ reqs' = [reqs EXCEPT ![r].pc = "done"]
    /\ LET name == reqs[r].name
           parsed == py_int(reqs[r].value)
       IN  /\ config_rows' = get_config(config_rows)
           /\ IF name \in numeric_fields /\ name \in DOMAIN config
                 /\ parsed.exc = "none"
              THEN config' = [config EXCEPT ![name] = parsed.n]
              ELSE UNCHANGED config
           /\ lastCall' =
                 IF name \in numeric_fields
                    /\ parsed.exc \notin {"none", "ValueError", "TypeError"}
                 THEN SettingsReply("settings_input", 500)
                 ELSE SettingsReply("settings_input", 204)
    /\ UNCHANGED <<stations, now, auto_accept_orders, orders, items, sale, readyBy,
                   logged>>

\* setting_value of settings_toggle when every value that is not empty
\* counts as true.
setting_value_truthy(v) == py_bool(v)

\* setting_value of settings_toggle: value == 'true' or value is True; a
\* form value is a string, never True.
setting_value(v) == v.kind = "str" /\ v.s = <<"t", "r", "u", "e">>

\* settings_toggle on request r, by name: always answered with 204.  A form
\* without a value counts as 'false'.
settings_toggle_named(r) ==
    /\ reqs[r].kind = "settings_toggle"
    /\ reqs[r].pc = "start"
    /\ reqs' = [reqs EXCEPT ![r].pc = "done"]
    /\ LET name == reqs[r].name
           value == IF reqs[r].value = Absent
                    THEN JsonStr(<<"f", "a", "l", "s", "e">>)
                    ELSE reqs[r].value
       IN  /\ config_rows' = get_config(config_rows)
           /\ auto_accept_orders' =
                 IF name = "auto_accept_orders" /\ name \in boolean_fields
                 THEN setting_value(value) ELSE auto_accept_orders
           /\ config' =
                 IF name \in boolean_fields /\ name \in DOMAIN config
                 THEN [config EXCEPT ![name] = setting_value(value)]
                 ELSE config
    /\ lastCall' = SettingsReply("settings_toggle", 204)
    /\ UNCHANGED <<stations, now, orders, items, sale, readyBy, logged>>

\* The fields of the row cfg after the assignments of settings_reset.
reset_config(cfg) ==
    [cfg EXCEPT !.show_timer = TRUE,
                !.warning_time_minutes = 15,
                !.critical_time_minutes = 30,
                !.sound_enabled = TRUE]

\* settings_reset on request r: always answered with 204.
settings_reset(r) ==
    /\ reqs[r].kind = "settings_reset"
    /\ reqs[r].pc = "start"
    /\ reqs' = [reqs EXCEPT ![r].pc = "done"]
    /\ config_rows' = get_config(config_rows)
    /\ auto_accept_orders' = FALSE
    /\ config' = reset_config(config)
    /\ lastCall' = SettingsReply("settings_reset", 204)
    /\ UNCHANGED <<stations, now, orders, items, sale, readyBy, logged>>

\* The values a JSON body may give a boolean setting and a numeric one, and
\* the strings a form may give.
BooleanArgs == {JsonBool(TRUE), JsonBool(FALSE), JsonStr(<<"a">>)}

NumericArgs ==
    {JsonInt(n) : n \in 0..MaxTime}
       \cup {JsonStr(<<"1", "2">>), JsonStr(<<"a", "b", "c">>), JsonNull,
             JsonInf}

FormArgs ==
    {JsonStr(<<Digits[n + 1]>>) : n \in 0..MaxTime}
       \cup {JsonStr(<<"1", "2">>), JsonStr(<<"a", "b", "c">>), JsonNull}

FormNames == NumericSettings \cup {"show_timer", "volume"}

\* The names and values a toggle form may carry.
ToggleNames == BooleanSettings \cup {"warning_time_minutes", "volume"}

ToggleArgs ==
    {JsonStr(<<"t", "r", "u", "e">>), JsonStr(<<"f", "a", "l", "s", "e">>),
     JsonStr(<<"T", "r", "u", "e">>), JsonStr(<<"o", "n">>), Absent}

\* The JSON object that gives each setting its value in a, the absent ones
\* left out.
Payload(a) ==
    [f \in {g \in DOMAIN a : a[g] # Absent} |-> a[f]]

SettingsSaveRequest(decoded, valid, data) ==
    [kind |-> "settings_save", pc |-> "start", decoded |-> decoded,
     valid |-> valid, data |-> data, name |-> "", value |-> Absent]

SettingsInputRequest(name, value) ==
    [kind |-> "settings_input", pc |-> "start", decoded |-> TRUE,
     valid |-> TRUE, data |-> << >>, name |-> name, value |-> value]

\* A configuration row whose every field differs from its default.
StoredConfig ==
    [show_timer |-> FALSE,
     warning_time_minutes |-> MaxTime,
     critical_time_minutes |-> MaxTime + 1,
     sound_enabled |-> FALSE,
     stations_enabled |-> TRUE]

SettingsToggleRequest(name, value) ==
    [kind |-> "settings_toggle", pc |-> "start", decoded |-> TRUE,
     valid |-> TRUE, data |-> << >>, name |-> name, value |-> value]

SettingsResetRequest ==
    [kind |-> "settings_reset", pc |-> "start", decoded |-> TRUE,
     valid |-> TRUE, data |-> << >>, name |-> "", value |-> Absent]

InitSettings ==
    /\ stations = << >>
    /\ now = 1
    /\ orders = << >>
    /\ items = << >>
    /\ sale = Idle
    /\ lastCall = NoCall
    /\ readyBy = << >>
    /\ logged = << >>
    /\ \/ /\ config_rows = << >>
          /\ config = DefaultConfig
          /\ auto_accept_orders = FALSE
       \/ /\ config_rows = <<CONFIG_PK>>
          /\ config = StoredConfig
          /\ auto_accept_orders = TRUE
    /\ \/ reqs = <<SettingsSaveRequest(TRUE, FALSE, << >>)>>
       \/ reqs = <<SettingsSaveRequest(FALSE, FALSE, << >>)>>
       \/ \E b \in [BooleanSettings -> BooleanArgs \cup {Absent}],
             n \in [NumericSettings -> NumericArgs \cup {Absent}] :
             reqs = <<SettingsSaveRequest(TRUE, TRUE,
                         Payload([f \in BooleanSettings \cup NumericSettings |->
                                    IF f \in BooleanSettings THEN b[f]
                                    ELSE n[f]]))>>
       \/ \E name \in FormNames, value \in FormArgs :
             reqs = <<SettingsInputRequest(name, value)>>
       \/ \E name \in ToggleNames, value \in ToggleArgs :
             reqs = <<SettingsToggleRequest(name, value)>>
       \/ reqs = <<SettingsResetRequest>>

NextSettings ==
    \/ \E r \in ReqIds : settings_save(r)
    \/ \E r \in ReqIds : settings_input(r)
    \/ \E r \in ReqIds : settings_toggle_named(r)
    \/ \E r \in ReqIds : settings_reset(r)

SpecSettings == InitSettings /\ [][NextSettings]_vars

\* ---------------------------------------------------------- the deletions
\* KitchenOrder and KitchenStation rows are deleted in the admin.  A table
\* that loses rows cannot be indexed by pk, so in SpecDelete every row
\* carries its pk, an item names its order by pk, and its station by pk or
\* Null.
\* The pks of the rows of a table.
Pks(rows) == {rows[k].pk : k \in 1..Len(rows)}

\* The table rows without the rows in gone (positions).
Without(rows, gone) ==
    LET Kept(row) == \A k \in gone : rows[k] # row
    IN  SelectSeq(rows, Kept)

\* on_delete=DO_NOTHING in place of CASCADE: the items stay.
CASCADE_nothing(its, pk) == its

\* on_delete=models.CASCADE of KitchenOrderItem.order: the items of the
\* deleted order pk are deleted with it.
CASCADE(its, pk) == Without(its, {k \in 1..Len(its) : its[k].order = pk})

\* on_delete=models.SET_NULL of KitchenOrderItem.station: the items of the
\* deleted station pk lose their reference.
SET_NULL(its, pk) ==
    [k \in 1..Len(its) |->
        IF its[k].station = pk THEN [its[k] EXCEPT !.station = Null]
        ELSE its[k]]

\* KitchenOrder.delete() of the order with pk.
order_delete(pk) ==
    /\ pk \in Pks(orders)
    /\ items' = CASCADE(items, pk)
    /\ orders' = Without(orders, {k \in 1..Len(orders) : orders[k].pk = pk})
    /\ lastCall' = [NoCall EXCEPT !.op = "order_delete", !.order = pk]
    /\ UNCHANGED <<stations, now, auto_accept_orders, sale, readyBy, logged,
                   config_rows, config, reqs>>

\* KitchenStation.delete() of the station with pk.
station_delete(pk) ==
    /\ pk \in Pks(stations)
    /\ items' = SET_NULL(items, pk)
    /\ stations' =
          Without(stations, {k \in 1..Len(stations) : stations[k].pk = pk})
    /\ lastCall' = [NoCall EXCEPT !.op = "station_delete", !.order = pk]
    /\ UNCHANGED <<now, auto_accept_orders, orders, sale, readyBy, logged,
                   config_rows, config, reqs>>

\* Up to MaxOrders orders, MaxStations stations and MaxItems items, each
\* item of one of the orders and of one of the stations or of none.
InitDelete ==
    /\ now = 1
    /\ auto_accept_orders = FALSE
    /\ sale = Idle
    /\ lastCall = NoCall
    /\ readyBy = << >>
    /\ logged = << >>
    /\ config_rows = <<CONFIG_PK>>
    /\ config = DefaultConfig
    /\ reqs = << >>
    /\ \E n \in 1..MaxOrders, m \in 0..MaxStations, k \in 0..MaxItems :
          /\ orders = [o \in 1..n |->
                         [pk |-> o, status |-> STATUS_PENDING, created_at |-> 1,
                          accepted_at |-> Null, ready_at |-> Null,
                          served_at |-> Null]]
          /\ stations = [st \in 1..m |-> [pk |-> st, is_active |-> TRUE]]
          /\ \E of \in [1..k -> 1..n], at \in [1..k -> 0..m] :
                items = [i \in 1..k |->
                           [pk |-> i, order |-> of[i], station |-> at[i],
                            status |-> STATUS_PENDING]]

NextDelete ==
    \/ \E pk \in Pks(orders) : order_delete(pk)
    \/ \E pk \in Pks(stations) : station_delete(pk)

SpecDelete == InitDelete /\ [][NextDelete]_vars

\* ------------------------------------------ commands side by side
\* A command view reads the order, tests its guard on the status it read
\* and then saves, with no transaction and no row lock.  SpecRace runs up
\* to MaxRequests start / complete / serve / cancel and bump_item requests
\* on one order, statement by statement.
CommandKinds == {"start", "complete", "serve", "cancel"}

\* The guard of the view op on the order status st.
guard(op, st) ==
    CASE op = "start" -> st = STATUS_PENDING
      [] op = "complete" -> st \in {STATUS_PENDING, STATUS_PREPARING}
      [] op = "serve" -> st = STATUS_READY
      [] op = "cancel" -> st \notin {STATUS_SERVED, "paid", STATUS_CANCELLED}

\* The row that the model method of the view op saves; save(update_fields)
\* writes the status and the stamp of the method and no other column.
transition(op, ord, t) ==
    CASE op = "start" -> accept(ord, t)
      [] op = "complete" -> mark_ready(ord, t)
      [] op = "serve" -> mark_served(ord, t)
      [] op = "cancel" -> cancel(ord)

\* The action the view op logs.
log_action(op) ==
    CASE op = "start" -> "started"
      [] op = "complete" -> "completed"
      [] op = "serve" -> "served"
      [] op = "cancel" -> "cancelled"

\* A command request on order 1, about to run; from is the stored status
\* when the requests arrived, seen the status the request has read.
CommandRequest(op, st) ==
    [kind |-> "command", pc |-> "read", op |-> op, from |-> st,
     seen |-> "none", success |-> FALSE]

\* A bump_item request on item i that arrived with them.
RaceBumpItemRequest(i, st) ==
    [kind |-> "bump_item", pc |-> "write", item |-> i, pending |-> TRUE,
     from |-> st]

\* get_object_or_404 and the guard of the view: the request reads the
\* stored order and answers 400 when its status fails the guard.
command_read(r) ==
    /\ r \in ReqIds
    /\ reqs[r].kind = "command"
    /\ reqs[r].pc = "read"
    /\ reqs' = [reqs EXCEPT ![r].seen = orders[1].status,
                            ![r].pc = IF guard(reqs[r].op, orders[1].status)
                                      THEN "write" ELSE "done"]
    /\ lastCall' =
          IF guard(reqs[r].op, orders[1].status) THEN lastCall
          ELSE [op |-> reqs[r].op, order |-> 1, before |-> orders[1].status,
                success |-> FALSE, code |-> 400]
    /\ logged' = IF guard(reqs[r].op, orders[1].status) THEN logged ELSE << >>
    /\ UNCHANGED <<stations, now, auto_accept_orders, orders, items, sale,
                   readyBy, config_rows, config>>

\* The model method of the view: the save of the status and its stamp.
command_write(r) ==
    /\ r \in ReqIds
    /\ reqs[r].kind = "command"
    /\ reqs[r].pc = "write"
    /\ orders' = [orders EXCEPT ![1] = transition(reqs[r].op, orders[1], now)]
    /\ readyBy' = IF reqs[r].op = "complete"
                  THEN [readyBy EXCEPT ![1] = "manual"] ELSE readyBy
    /\ reqs' = [reqs EXCEPT ![r].pc = "log"]
    /\ UNCHANGED <<stations, now, auto_accept_orders, items, sale, lastCall,
                   logged, config_rows, config>>

\* _log(hub, order, ...) and the answer of the view.
command_log(r) ==
    /\ r \in ReqIds
    /\ reqs[r].kind = "command"
    /\ reqs[r].pc = "log"
    /\ logged' = _log(1, Null, log_action(reqs[r].op))
    /\ lastCall' = [op |-> reqs[r].op, order |-> 1, before |-> reqs[r].seen,
                    success |-> TRUE, code |-> 200]
    /\ reqs' = [reqs EXCEPT ![r].pc = "done", ![r].success = TRUE]
    /\ UNCHANGED <<stations, now, auto_accept_orders, orders, items, sale,
                   readyBy, config_rows, config>>

\* One stored order in any status, its items pending, and the requests.
InitRace ==
    /\ stations = << >>
    /\ now = 1
    /\ config = DefaultConfig
    /\ auto_accept_orders = FALSE
    /\ sale = Idle
    /\ lastCall = NoCall
    /\ logged = << >>
    /\ config_rows = <<CONFIG_PK>>
    /\ readyBy = <<"none">>
    /\ \E st \in OrderStatuses, k \in 1..MaxItems, n \in 1..MaxRequests :
          /\ orders = <<[status |-> st,
                         created_at |-> 1,
                         accepted_at |-> Stamps(st).accepted_at,
                         ready_at |-> Stamps(st).ready_at,
                         served_at |-> Stamps(st).served_at]>>
          /\ items = [i \in 1..k |-> [order |-> 1, status |-> STATUS_PENDING]]
          /\ reqs \in [1..n -> {CommandRequest(op, st) : op \in CommandKinds}
                                 \cup {RaceBumpItemRequest(i, st) : i \in 1..k}]

NextRace ==
    \/ \E r \in ReqIds : command_read(r)
    \/ \E r \in ReqIds : command_write(r)
    \/ \E r \in ReqIds : command_log(r)
    \/ \E r \in ReqIds : bump_item_write(r)
    \/ \E r \in ReqIds : bump_item_check(r)
    \/ \E r \in ReqIds : bump_item_mark(r)
    \/ \E r \in ReqIds : bump_item_log(r)

SpecRace == InitRace /\ [][NextRace]_vars

\* ------------------------------------------------------------- type check
TypeOK ==
    /\ now \in 1..MaxTime
    /\ auto_accept_orders \in BOOLEAN
    /\ OrderIds \subseteq OrderPks
    /\ \A o \in OrderIds :
          /\ orders[o].status \in OrderStatuses
          /\ orders[o].created_at \in 1..MaxTime
          /\ orders[o].accepted_at \in 0..MaxTime
          /\ orders[o].ready_at \in 0..MaxTime
          /\ orders[o].served_at \in 0..MaxTime
    /\ \A i \in ItemIds :
          /\ items[i].order \in OrderIds
          /\ items[i].status \in ItemStatuses
    /\ lastCall.code \in {200, 400, 404}
    /\ sale.pc \in {"idle", "stamp", "items"}
    /\ sale.left \in 0..MaxItems
    /\ sale.n \in 0..MaxItems
    /\ sale.auto \in BOOLEAN
    /\ Len(readyBy) = Len(orders)
    /\ \A o \in OrderIds : readyBy[o] \in {"none", "manual", "auto"}
    /\ Len(logged) <= 1
    /\ \A k \in 1..Len(config_rows) : config_rows[k] = CONFIG_PK
    /\ Len(reqs) <= MaxRequests
    /\ \A r \in ReqIds :
          \/ /\ reqs[r].kind = "bump_item"
             /\ reqs[r].pc \in {"write", "check", "mark", "log", "done"}
             /\ reqs[r].item \in ItemIds
             /\ reqs[r].pending \in BOOLEAN
          \/ /\ reqs[r].kind = "get_config"
             /\ reqs[r].pc \in {"get", "create", "reget", "done", "error"}
             /\ reqs[r].result \in {Null, CONFIG_PK}

\* ================================================================= claims
\* Order o is ready while one of its items is not.
ReadyWithNonReady(ords, its, o) ==
    /\ ords[o].status = STATUS_READY
    /\ ~AllReady(its, o)

\* The sale-created handler has returned.
SaleDone == sale.pc = "idle"

C2_AllItemsReadyMarksOrderReady ==
    [][\A i \in ItemIds :
          LET o == items[i].order
          IN  (bump_item(i) /\ AllReady(items', o))
                  => /\ orders'[o].status = STATUS_READY
                     /\ orders'[o].ready_at # Null]_vars

\* A pending order (never accepted) whose last item was just bumped: it is
\* ready and stamped.
C2_Witness ==
    /\ lastCall.op = "bump_item"
    /\ lastCall.before = STATUS_PENDING
    /\ SaleDone
    /\ Cardinality(ItemsOf(items, lastCall.order)) = 2
    /\ AllReady(items, lastCall.order)
    /\ orders[lastCall.order].status = STATUS_READY
    /\ orders[lastCall.order].ready_at # Null
    /\ orders[lastCall.order].accepted_at = Null

\* ---- C3
\* C3: once an order is served, only recall changes its status; start,
\* complete, bump, serve, cancel and item mark_ready leave it served.
C3_ServedLeftOnlyByRecall ==
    [][\A o \in OrderIds :
          (orders[o].status = STATUS_SERVED /\ orders'[o].status # STATUS_SERVED)
              => recall_order(o)]_vars

\* ---- C4
\* C4: once an order is cancelled it is cancelled in every later state.
C4_CancelledStaysCancelled ==
    [][\A o \in OrderIds :
          orders[o].status = STATUS_CANCELLED
              => orders'[o].status = STATUS_CANCELLED]_vars

\* ---- C5
\* C5: accepted_at, ready_at and served_at, once written, are never
\* overwritten by a later operation.
C5_TimestampsWrittenOnce ==
    [][\A o \in OrderIds :
          /\ orders[o].accepted_at # Null
                => orders'[o].accepted_at = orders[o].accepted_at
          /\ orders[o].ready_at # Null
                => orders'[o].ready_at = orders[o].ready_at
          /\ orders[o].served_at # Null
                => orders'[o].served_at = orders[o].served_at]_vars

\* ---- C6
\* C6: no stored state has an order whose status is preparing and whose
\* accepted_at is null.
C6_PreparingHasAcceptedAt ==
    \A o \in OrderIds :
        orders[o].status = STATUS_PREPARING => orders[o].accepted_at # Null

\* ---- C7
Rank(st) == CASE st = STATUS_PENDING -> 0
              [] st = STATUS_PREPARING -> 1
              [] st = STATUS_READY -> 2

\* C7: an item's status only moves forward along pending -> preparing ->
\* ready under mark_preparing and mark_ready.
C7_ItemStatusOnlyForward ==
    [][\A i \in ItemIds :
          Rank(items'[i].status) >= Rank(items[i].status)]_vars

\* ---- C8
\* C8: mark_ready on an item that is already ready, in an order that is
\* already ready, leaves the item ready and the order unchanged (same status,
\* same ready_at).
C8_ItemMarkReadyIdempotent ==
    [][\A i \in ItemIds :
          LET o == items[i].order
          IN  (bump_item(i) /\ items[i].status = STATUS_READY
                            /\ orders[o].status = STATUS_READY)
                  => /\ items'[i].status = STATUS_READY
                     /\ orders'[o] = orders[o]]_vars

\* ---- C9
\* C9: an order that has a non-ready item is ready only if a manual
\* order-level action (complete, bump, recall) put it there: no write of the
\* sale-created handler and no item mark_ready, in any interleaving, leaves
\* an order that is ready over a non-ready item, unless the order already was
\* so before the step or a manual action made it ready.
C9_ReadyOverNonReadyOnlyByManualAction ==
    [][(on_sale_created_step \/ \E i \in ItemIds : bump_item(i))
          => \A o \in 1..Len(orders') :
                (ReadyWithNonReady(orders', items', o) /\ readyBy'[o] # "manual")
                    => (o \in OrderIds /\ ReadyWithNonReady(orders, items, o))]_vars

\* ---- C10
\* C10: when an item's mark_ready completes and another item of the same
\* order is not ready, the order's status and timestamps are unchanged.
C10_PartialReadyLeavesOrderUnchanged ==
    [][\A i \in ItemIds :
          LET o == items[i].order
          IN  (bump_item(i)
                 /\ \E j \in ItemsOf(items, o) \ {i} : items[j].status # STATUS_READY)
                  => orders'[o] = orders[o]]_vars

\* A preparing order after a bump_item that left a sibling item not ready.
C10_Witness ==
    /\ lastCall.op = "bump_item"
    /\ lastCall.before = STATUS_PREPARING
    /\ SaleDone
    /\ orders[lastCall.order].status = STATUS_PREPARING
    /\ orders[lastCall.order].ready_at = Null
    /\ \E j \in ItemsOf(items, lastCall.order) : items[j].status = STATUS_READY
    /\ \E j \in ItemsOf(items, lastCall.order) : items[j].status # STATUS_READY

\* ---- C14
\* C14: a bump applies exactly the one forward transition of the status it
\* finds, and succeeds: pending -> preparing with accepted_at set,
\* preparing -> ready with ready_at set, ready -> served with served_at set;
\* every other field of the order is left as it was.  Three bumps in a row
\* therefore take a pending order to served.
C14_BumpSingleForwardTransition ==
    [][\A o \in OrderIds :
          bump_order(o) =>
             /\ orders[o].status = STATUS_PENDING =>
                   /\ lastCall'.success
                   /\ orders'[o] = [orders[o] EXCEPT !.status = STATUS_PREPARING,
                                                     !.accepted_at = now]
                   /\ orders'[o].accepted_at # Null
             /\ orders[o].status = STATUS_PREPARING =>
                   /\ lastCall'.success
                   /\ orders'[o] = [orders[o] EXCEPT !.status = STATUS_READY,
                                                     !.ready_at = now]
                   /\ orders'[o].ready_at # Null
             /\ orders[o].status = STATUS_READY =>
                   /\ lastCall'.success
                   /\ orders'[o] = [orders[o] EXCEPT !.status = STATUS_SERVED,
                                                     !.served_at = now]
                   /\ orders'[o].served_at # Null]_vars

\* The third bump has served an order that the bumps accepted and made ready.
C14_Witness ==
    /\ lastCall.op = "bump"
    /\ lastCall.success
    /\ lastCall.before = STATUS_READY
    /\ readyBy[lastCall.order] = "manual"
    /\ orders[lastCall.order].status = STATUS_SERVED
    /\ orders[lastCall.order].accepted_at # Null
    /\ orders[lastCall.order].ready_at # Null
    /\ orders[lastCall.order].served_at # Null

\* ---- C15
\* C15: a bump on a served, cancelled or paid order fails and is a no-op:
\* the answer is a failure, the order's status and timestamps are unchanged
\* and no audit row is written.
C15_BumpRefusedIsNoOp ==
    [][\A o \in OrderIds :
          (bump_order(o)
             /\ orders[o].status \in {STATUS_SERVED, STATUS_CANCELLED, "paid"})
              => /\ ~lastCall'.success
                 /\ orders'[o] = orders[o]
                 /\ logged' = << >>]_vars

\* A bump that was refused on a served order.
C15_Witness ==
    /\ lastCall.op = "bump"
    /\ ~lastCall.success
    /\ lastCall.before = STATUS_SERVED
    /\ orders[lastCall.order].status = STATUS_SERVED
    /\ logged = << >>

\* ---- C16
\* C16: start succeeds exactly when the order is pending; on success the
\* order is preparing with accepted_at set, otherwise the answer is a
\* failure and the order is unchanged.
C16_StartOnlyFromPending ==
    [][\A o \in OrderIds :
          start_order(o) =>
             /\ lastCall'.success <=> orders[o].status = STATUS_PENDING
             /\ lastCall'.success =>
                   /\ orders'[o].status = STATUS_PREPARING
                   /\ orders'[o].accepted_at # Null
             /\ ~lastCall'.success => orders'[o] = orders[o]]_vars

\* A start that was refused on an order already preparing.
C16_Witness ==
    /\ lastCall.op = "start"
    /\ ~lastCall.success
    /\ lastCall.before = STATUS_PREPARING
    /\ orders[lastCall.order].status = STATUS_PREPARING

\* ---- C17
\* C17: complete succeeds exactly when the order is pending or preparing; on
\* success the order is ready with ready_at set, otherwise it fails and the
\* order is unchanged.
C17_CompleteOnlyFromPendingOrPreparing ==
    [][\A o \in OrderIds :
          complete_order(o) =>
             /\ lastCall'.success <=>
                   orders[o].status \in {STATUS_PENDING, STATUS_PREPARING}
             /\ lastCall'.success =>
                   /\ orders'[o].status = STATUS_READY
                   /\ orders'[o].ready_at # Null
             /\ ~lastCall'.success => orders'[o] = orders[o]]_vars

\* A complete that made a pending order ready.
C17_Witness ==
    /\ lastCall.op = "complete"
    /\ lastCall.success
    /\ lastCall.before = STATUS_PENDING
    /\ orders[lastCall.order].status = STATUS_READY
    /\ orders[lastCall.order].ready_at # Null

\* ---- C18
\* C18: serve succeeds exactly when the order is ready; on success the order
\* is served with served_at set; on a served, pending, preparing or
\* cancelled order it fails and the order is unchanged.
C18_ServeOnlyFromReady ==
    [][\A o \in OrderIds :
          serve_order(o) =>
             /\ lastCall'.success <=> orders[o].status = STATUS_READY
             /\ lastCall'.success =>
                   /\ orders'[o].status = STATUS_SERVED
                   /\ orders'[o].served_at # Null
             /\ ~lastCall'.success => orders'[o] = orders[o]]_vars

\* A second serve, refused on the order that is already served.
C18_Witness ==
    /\ lastCall.op = "serve"
    /\ ~lastCall.success
    /\ lastCall.before = STATUS_SERVED
    /\ orders[lastCall.order].status = STATUS_SERVED
    /\ orders[lastCall.order].served_at # Null

\* ---- C19
\* C19: cancel succeeds exactly when the order is not served, paid or
\* cancelled; on success only the status changes, to cancelled, so
\* accepted_at, ready_at and served_at are kept; otherwise it fails and the
\* order is unchanged.
C19_CancelKeepsTimestamps ==
    [][\A o \in OrderIds :
          cancel_order(o) =>
             /\ lastCall'.success <=>
                   orders[o].status \notin {STATUS_SERVED, "paid", STATUS_CANCELLED}
             /\ lastCall'.success =>
                   orders'[o] = [orders[o] EXCEPT !.status = STATUS_CANCELLED]
             /\ ~lastCall'.success => orders'[o] = orders[o]]_vars

\* A ready order cancelled with its accepted_at and ready_at still set.
C19_Witness ==
    /\ lastCall.op = "cancel"
    /\ lastCall.success
    /\ lastCall.before = STATUS_READY
    /\ orders[lastCall.order].status = STATUS_CANCELLED
    /\ orders[lastCall.order].accepted_at # Null
    /\ orders[lastCall.order].ready_at # Null

\* ---- C20
\* C20: recall succeeds exactly when the order is served, and moves it back
\* to ready; on any other status it fails and the order is unchanged.
C20_RecallOnlyFromServed ==
    [][\A o \in OrderIds :
          recall_order(o) =>
             /\ lastCall'.success <=> orders[o].status = STATUS_SERVED
             /\ lastCall'.success => orders'[o].status = STATUS_READY
             /\ ~lastCall'.success => orders'[o] = orders[o]]_vars

\* A served order that a recall moved back to ready.
C20_Witness ==
    /\ lastCall.op = "recall"
    /\ lastCall.success
    /\ lastCall.before = STATUS_SERVED
    /\ orders[lastCall.order].status = STATUS_READY
    /\ orders[lastCall.order].served_at # Null

\* ---- C11
\* The bump_item requests in flight.
BumpItemReqs == {r \in ReqIds : reqs[r].kind = "bump_item"}

\* C11: once every bump_item request running side by side has completed, an
\* order all of whose items are ready is ready, whatever the order in which
\* the item writes and the all-ready checks of the requests were run.
C11_ConcurrentLastItemsMakeOrderReady ==
    (\A r \in BumpItemReqs : reqs[r].pc = "done")
        => \A o \in OrderIds :
              (AllReady(items, o) /\ \E r \in BumpItemReqs : items[reqs[r].item].order = o)
                  => /\ orders[o].status = STATUS_READY
                     /\ orders[o].ready_at # Null

\* Two requests on two different items have completed; the check of one of
\* them still found a non-ready item and the check of the other found none.
C11_Witness ==
    \E r1, r2 \in BumpItemReqs :
        /\ reqs[r1].item # reqs[r2].item
        /\ reqs[r1].pc = "done"
        /\ reqs[r2].pc = "done"
        /\ reqs[r1].pending
        /\ ~reqs[r2].pending
        /\ AllReady(items, 1)
        /\ orders[1].status = STATUS_READY

\* ---- C12
\* C12: the item write and the order's transition to ready that follows from
\* it are one step to every reader: in no state has a request written an
\* item ready, so that every item of the order is ready, while the order is
\* not yet ready with ready_at set.
C12_ItemWriteAndOrderReadyAtomic ==
    \A r \in BumpItemReqs :
        LET o == items[reqs[r].item].order
        IN  (reqs[r].pc \in {"check", "mark"} /\ AllReady(items, o))
               => /\ orders[o].status = STATUS_READY
                  /\ orders[o].ready_at # Null

\* ---- C13
\* The get_config calls in flight.
GetConfigReqs == {r \in ReqIds : reqs[r].kind = "get_config"}

\* C13: however the statements of concurrent get_config calls interleave,
\* the configuration table never holds more than one row, no call raises,
\* and every call that has returned has returned the one row that exists.
C13_ConcurrentGetConfigOneRow ==
    /\ Len(config_rows) <= 1
    /\ \A r \in GetConfigReqs :
          /\ reqs[r].pc # "error"
          /\ reqs[r].pc = "done" =>
                /\ Len(config_rows) = 1
                /\ reqs[r].result = config_rows[1]

\* Two calls that both found no row have returned: one created the row, the
\* INSERT of the other was refused and it read the row of the first.
C13_Witness ==
    \E r1, r2 \in GetConfigReqs :
        /\ reqs[r1].pc = "done"
        /\ reqs[r2].pc = "done"
        /\ reqs[r1].created
        /\ reqs[r2].conflict
        /\ ~reqs[r2].created
        /\ reqs[r2].result = CONFIG_PK
        /\ Len(config_rows) = 1

\* ---- C21
\* C21: a manual order-level mark-ready -- complete on a pending or preparing
\* order, bump on a preparing order -- is never held back by the items: it
\* succeeds and the order is ready, also when items of the order are still
\* pending or preparing.
C21_ManualReadyNotBlockedByItems ==
    [][\A o \in OrderIds :
          (\/ complete_order(o) /\ orders[o].status \in {STATUS_PENDING, STATUS_PREPARING}
           \/ bump_order(o) /\ orders[o].status = STATUS_PREPARING)
              => /\ lastCall'.success
                 /\ orders'[o].status = STATUS_READY
                 /\ items' = items]_vars

\* A complete has made the order ready while none of its two items is ready.
C21_Witness ==
    /\ lastCall.op = "complete"
    /\ lastCall.success
    /\ SaleDone
    /\ orders[lastCall.order].status = STATUS_READY
    /\ Cardinality(ItemsOf(items, lastCall.order)) = 2
    /\ \E j \in ItemsOf(items, lastCall.order) : items[j].status = STATUS_PENDING
    /\ \E j \in ItemsOf(items, lastCall.order) : items[j].status = STATUS_PREPARING

\* ---- C22
\* C22: the all-items-ready check runs on an item's mark_ready only: an
\* item's mark_preparing leaves the order table as it is, and start, serve
\* and cancel write their own transition or nothing, never the check's
\* 'ready', also on an order none of whose items is non-ready.
C22_CheckOnlyOnItemReady ==
    [][/\ \A i \in ItemIds : mark_preparing(i) => orders' = orders
       /\ \A o \in OrderIds :
             /\ start_order(o) =>
                   orders'[o] \in {orders[o], accept(orders[o], now)}
             /\ serve_order(o) =>
                   orders'[o] \in {orders[o], mark_served(orders[o], now)}
             /\ cancel_order(o) =>
                   orders'[o] \in {orders[o], cancel(orders[o])}
             /\ (start_order(o) \/ cancel_order(o))
                   => (orders'[o].status = STATUS_READY
                          => orders[o].status = STATUS_READY)]_vars

\* mark_preparing has run on an item of a pending order, which is still
\* pending and not accepted.
C22_Witness ==
    /\ lastCall.op = "mark_preparing"
    /\ lastCall.before = STATUS_PENDING
    /\ orders[lastCall.order].status = STATUS_PENDING
    /\ orders[lastCall.order].accepted_at = Null
    /\ \E j \in ItemsOf(items, lastCall.order) : items[j].status = STATUS_PREPARING

\* ---- C23
\* C23: for a sale with n >= 1 line items the handler creates exactly one
\* order, pending with accepted_at null when auto-accept is off and
\* preparing when it is on, then stamps accepted_at when auto-accept is on,
\* then creates one pending item of that order per line and nothing else;
\* when it returns the order has exactly n items, and accepted_at is set if
\* auto-accept was on.
C23_SaleCreatesOneOrderAndNItems ==
    [][/\ \A n \in 1..MaxItems :
             on_sale_created(n) =>
                /\ Len(orders') = Len(orders) + 1
                /\ orders'[Len(orders')].status =
                      (IF auto_accept_orders THEN STATUS_PREPARING ELSE STATUS_PENDING)
                /\ ~auto_accept_orders => orders'[Len(orders')].accepted_at = Null
                /\ items' = items
                /\ ItemsOf(items', Len(orders')) = {}
       /\ sale_stamp_accepted =>
             /\ sale.auto
             /\ orders'[sale.order].accepted_at # Null
             /\ Len(orders') = Len(orders)
             /\ items' = items
       /\ sale_create_item =>
             /\ orders' = orders
             /\ Len(items') = Len(items) + 1
             /\ \A j \in ItemIds : items'[j] = items[j]
             /\ items'[Len(items')] = [order |-> sale.order, status |-> STATUS_PENDING]
             /\ sale'.pc = "idle" =>
                   /\ Cardinality(ItemsOf(items', sale.order)) = sale.n
                   /\ sale.auto => orders'[sale.order].accepted_at # Null]_vars

\* The handler has returned, auto-accept on, and no command has run: the
\* order is preparing with accepted_at set and has two items, both pending.
C23_Witness ==
    /\ SaleDone
    /\ lastCall = NoCall
    /\ Len(orders) = 1
    /\ orders[1].status = STATUS_PREPARING
    /\ orders[1].accepted_at # Null
    /\ Cardinality(ItemsOf(items, 1)) = 2
    /\ \A j \in ItemsOf(items, 1) : items[j].status = STATUS_PENDING

\* ---- C24
\* What the eight commands answer as.
CommandOps ==
    {"start", "bump", "complete", "serve", "recall", "cancel", "set_priority",
     "bump_item"}

\* C24: every command -- start, complete, bump, serve, recall, cancel,
\* set_priority, item bump -- writes exactly one audit row, for the order it
\* acted on, when it succeeds, and none when its guard refuses it or its
\* target is not found; so the audit table grows by one row per successful
\* command and by nothing else.
C24_OneAuditRowPerSuccessfulCommand ==
    [][lastCall'.op \in CommandOps =>
          /\ Len(logged') = (IF lastCall'.success THEN 1 ELSE 0)
          /\ lastCall'.success =>
                /\ logged'[1].order = lastCall'.order
                /\ logged'[1].action =
                      (CASE lastCall'.op = "start" -> "started"
                         [] lastCall'.op = "complete" -> "completed"
                         [] lastCall'.op = "serve" -> "served"
                         [] lastCall'.op = "recall" -> "recalled"
                         [] lastCall'.op = "cancel" -> "cancelled"
                         [] lastCall'.op = "set_priority" -> "priority_changed"
                         [] lastCall'.op = "bump_item" -> "item_bumped"
                         [] lastCall'.op = "bump" ->
                               (CASE lastCall'.before = STATUS_PENDING -> "started"
                                  [] lastCall'.before = STATUS_PREPARING -> "completed"
                                  [] lastCall'.before = STATUS_READY -> "served"))]_vars

\* A set_priority that succeeded and wrote its one audit row.
C24_Witness ==
    /\ lastCall.op = "set_priority"
    /\ lastCall.success
    /\ orders[lastCall.order].priority = "rush"
    /\ logged = <<[order |-> lastCall.order, item |-> Null,
                   action |-> "priority_changed"]>>

\* ---- C25
\* The order / item that a request of hub names with pk is not a live row of
\* that hub.
OrderMissing(hub, pk) ==
    \/ pk \notin OrderIds
    \/ orders[pk].hub_id # hub
    \/ orders[pk].is_deleted

ItemMissing(hub, pk) ==
    \/ pk \notin ItemIds
    \/ orders[items[pk].order].hub_id # hub
    \/ items[pk].is_deleted

\* The order command answered as op, of hub on pk.
OrderCommand(op, hub, pk) ==
    CASE op = "start" -> start_order_view(hub, pk)
      [] op = "bump" -> bump_order_view(hub, pk)
      [] op = "complete" -> complete_order_view(hub, pk)
      [] op = "serve" -> serve_order_view(hub, pk)
      [] op = "recall" -> recall_order_view(hub, pk)
      [] op = "cancel" -> cancel_order_view(hub, pk)
      [] op = "set_priority" ->
            \E priority \in PriorityArgs : set_priority_view(hub, pk, priority)
      [] OTHER -> FALSE

\* C25: a command that names an order or item that is unknown, soft-deleted
\* or of another hub is answered 404 and writes no order, no item and no
\* audit row; a command that finds its target is never answered 404 (a
\* refused transition is a 400).
C25_NotFoundChangesNothing ==
    [][\A hub \in Hubs :
          /\ \A pk \in OrderArgs :
                OrderCommand(lastCall'.op, hub, pk) =>
                   IF OrderMissing(hub, pk)
                   THEN /\ lastCall'.code = 404
                        /\ ~lastCall'.success
                        /\ orders' = orders
                        /\ items' = items
                        /\ logged' = << >>
                   ELSE /\ lastCall'.code # 404
                        /\ ~lastCall'.success => lastCall'.code = 400
          /\ \A pk \in ItemArgs :
                (lastCall'.op = "bump_item" /\ bump_item_view(hub, pk)) =>
                   IF ItemMissing(hub, pk)
                   THEN /\ lastCall'.code = 404
                        /\ ~lastCall'.success
                        /\ orders' = orders
                        /\ items' = items
                        /\ logged' = << >>
                   ELSE lastCall'.code # 404]_vars

\* A start that named a pending, live order of the other hub was answered
\* 404, and the order is still pending.
C25_Witness ==
    /\ lastCall.code = 404
    /\ lastCall.op = "start"
    /\ lastCall.pk \in OrderIds
    /\ orders[lastCall.pk].hub_id # lastCall.hub
    /\ ~orders[lastCall.pk].is_deleted
    /\ orders[lastCall.pk].status = STATUS_PENDING
    /\ logged = << >>

\* ---- C26
\* The orders the listing of hub has to show.
ActiveOf(hub) ==
    {o \in OrderIds : /\ orders[o].hub_id = hub
                      /\ ~orders[o].is_deleted
                      /\ orders[o].status \in {STATUS_PENDING, STATUS_PREPARING}}

CountOf(hub, st) ==
    Cardinality({o \in OrderIds : /\ orders[o].hub_id = hub
                                  /\ ~orders[o].is_deleted
                                  /\ orders[o].status = st})

\* C28: the order count of a hub gives the number of its live orders that
\* are pending, preparing and ready, and a total of pending + preparing, in
\* which ready, served and cancelled orders do not count.
C28_OrderCountByStatus ==
    lastCall.op = "api_order_count" =>
        /\ lastCall.body.pending = CountOf(lastCall.hub, STATUS_PENDING)
        /\ lastCall.body.preparing = CountOf(lastCall.hub, STATUS_PREPARING)
        /\ lastCall.body.ready = CountOf(lastCall.hub, STATUS_READY)
        /\ lastCall.body.total = CountOf(lastCall.hub, STATUS_PENDING)
                                    + CountOf(lastCall.hub, STATUS_PREPARING)

\* A count over a pending and a ready order of the hub: total 1, ready 1.
C28_Witness ==
    /\ lastCall.op = "api_order_count"
    /\ lastCall.body.pending = 1
    /\ lastCall.body.ready = 1
    /\ lastCall.body.total = 1

\* C27: a read of status_class answers '' for an order that is ready, served
\* or cancelled; for any other order it answers 'critical' when
\* elapsed_minutes >= critical_time_minutes, else 'warning' when
\* elapsed_minutes >= warning_time_minutes, else '', whatever the two
\* thresholds are, warning >= critical included.
C27_StatusClassByElapsedAndThresholds ==
    [][(\E o \in OrderIds : status_class_get(o)) =>
         LET ord == orders[lastCall'.order]
             minutes == elapsed_minutes(ord, now)
         IN  lastCall'.body =
               CASE ord.status \in {STATUS_READY, STATUS_SERVED,
                                    STATUS_CANCELLED} -> ""
                 [] ord.status \in {STATUS_PENDING, STATUS_PREPARING}
                    /\ minutes >= config.critical_time_minutes -> "critical"
                 [] ord.status \in {STATUS_PENDING, STATUS_PREPARING}
                    /\ minutes < config.critical_time_minutes
                    /\ minutes >= config.warning_time_minutes -> "warning"
                 [] OTHER -> ""]_vars

\* A pending order past both thresholds, the warning threshold not below
\* the critical one, read as 'critical'.
C27_Witness ==
    /\ lastCall.op = "status_class"
    /\ orders[lastCall.order].status = STATUS_PENDING
    /\ config.warning_time_minutes > config.critical_time_minutes
    /\ elapsed_minutes(orders[lastCall.order], now)
          >= config.warning_time_minutes
    /\ lastCall.body = "critical"

\* ---- C29
\* The value a well-typed JSON value gives setting f: a boolean for a
\* boolean setting, an integer for a numeric one.
WellTyped(f, v) ==
    IF f \in BooleanSettings THEN v.kind = "bool" ELSE v.kind = "int"

\* Setting f holds the value v.
Holds(f, auto, cfg, v) ==
    IF f \in BooleanSettings THEN Setting(f, auto, cfg) = (v.n = 1)
    ELSE Setting(f, auto, cfg) = v.n

\* C29: after a successful settings save whose payload names
\* auto_accept_orders, show_timer, warning_time_minutes,
\* critical_time_minutes, sound_enabled and stations_enabled, each of the six
\* settings equals the value the payload gives it; after any successful
\* save, a setting the payload does not name keeps its previous value.
C29_SaveAppliesEveryNamedSetting ==
    [][\A r \in ReqIds :
         (settings_save(r) /\ lastCall'.success) =>
            LET data == reqs[r].data
                six == BooleanSettings \cup NumericSettings
            IN  /\ (DOMAIN data = six
                      /\ \A f \in six : WellTyped(f, data[f]))
                     => \A f \in six :
                           Holds(f, auto_accept_orders', config', data[f])
                /\ \A f \in six \ DOMAIN data :
                      Setting(f, auto_accept_orders', config')
                         = Setting(f, auto_accept_orders, config)]_vars

\* ---- C30
\* The value cannot be parsed as an integer: null, infinity, or a string
\* that is not a number.
CannotParse(v) ==
    \/ v.kind \in {"null", "inf"}
    \/ v.kind = "str" /\ ~IsDigits(v.s)

\* The settings of a payload that settings_save handles and whose value it
\* can take.
ValidFields(data) ==
    {f \in DOMAIN data :
        \/ f \in boolean_fields
        \/ f \in numeric_fields /\ ~CannotParse(data[f])}

\* C30: in settings bulk-save and in the single numeric-field update, a
\* numeric field whose value cannot be parsed as an integer is left at its
\* previous value, every other valid field of the same request is applied,
\* and the request succeeds.
C30_UnparseableNumberSkippedRestApplied ==
    [][\A r \in ReqIds :
         /\ (settings_save(r) /\ reqs[r].valid) =>
               LET data == reqs[r].data
                   bad == {f \in DOMAIN data \cap numeric_fields :
                              CannotParse(data[f])}
               IN  bad # {} =>
                      /\ \A f \in bad : config'[f] = config[f]
                      /\ \A f \in ValidFields(data) :
                            Setting(f, auto_accept_orders', config')
                               = IF f \in boolean_fields
                                 THEN py_bool(data[f]) ELSE py_int(data[f]).n
                      /\ lastCall'.success
         /\ (settings_input(r) /\ reqs[r].name \in numeric_fields
               /\ CannotParse(reqs[r].value)) =>
               /\ config' = config
               /\ auto_accept_orders' = auto_accept_orders
               /\ lastCall'.success]_vars

\* ---- C31
\* C31: a settings bulk-save whose body is not a JSON document is answered
\* with an error, and every setting, the configuration table included, is
\* as it was.
C31_InvalidJsonRejectedNothingSaved ==
    [][\A r \in ReqIds :
         (settings_save(r) /\ ~(reqs[r].decoded /\ reqs[r].valid)) =>
            /\ ~lastCall'.success
            /\ lastCall'.code >= 400
            /\ config' = config
            /\ auto_accept_orders' = auto_accept_orders
            /\ config_rows' = config_rows]_vars

\* A body that is text but not JSON was answered 400, and the stored
\* settings, none at its default, are still there.
C31_Witness ==
    /\ lastCall.op = "settings_save"
    /\ lastCall.code = 400
    /\ reqs[1].pc = "done"
    /\ reqs[1].decoded /\ ~reqs[1].valid
    /\ config = StoredConfig
    /\ auto_accept_orders

\* ---- C32
\* The six settings of the configuration row.
SettingNames == BooleanSettings \cup NumericSettings

\* C32: a toggle of a name in the allow-list of boolean settings sets that
\* setting to true when the submitted value is 'true' and to false
\* otherwise, and leaves every other setting as it was; a toggle of any
\* other name leaves every setting as it was.
C32_ToggleChangesOnlyNamedBooleanSetting ==
    [][\A r \in ReqIds :
         settings_toggle_named(r) =>
            \A f \in SettingNames :
               Setting(f, auto_accept_orders', config') =
                  IF f = reqs[r].name
                     /\ f \in {"auto_accept_orders", "show_timer",
                               "sound_enabled"}
                  THEN reqs[r].value = JsonStr(<<"t", "r", "u", "e">>)
                  ELSE Setting(f, auto_accept_orders, config)]_vars

\* A toggle of show_timer with the value 'false' turned it off, and the
\* other settings are the defaults still.
C32_Witness ==
    /\ lastCall.op = "settings_toggle"
    /\ reqs[1].pc = "done"
    /\ reqs[1].name = "show_timer"
    /\ reqs[1].value = JsonStr(<<"f", "a", "l", "s", "e">>)
    /\ config = [DefaultConfig EXCEPT !.show_timer = FALSE]
    /\ ~auto_accept_orders

\* ---- C33
\* C33: after a reset every setting is at its default, whatever it was
\* before, so the row equals a freshly created one; and a reset of the row
\* that a reset left changes nothing.
C33_ResetRestoresEveryDefault ==
    [][\A r \in ReqIds :
         settings_reset(r) =>
            /\ auto_accept_orders' = FALSE
            /\ config' = DefaultConfig
            /\ reset_config(config') = config']_vars

\* ---- C34
\* C34: a set_priority on an order it finds succeeds with normal, rush or
\* vip, and then the order's priority is that value and every other field
\* of the order, status and timestamps included, is as it was; with any
\* other value it is answered 400 and the order table is as it was.
C34_PriorityOnlyNormalRushVip ==
    [][lastCall'.op = "set_priority" =>
         \A o \in OrderIds, priority \in PriorityArgs :
            set_priority(o, priority) =>
               IF priority \in {"normal", "rush", "vip"}
               THEN /\ lastCall'.success
                    /\ orders' = [orders EXCEPT ![o].priority = priority]
               ELSE /\ ~lastCall'.success
                    /\ lastCall'.code = 400
                    /\ orders' = orders]_vars

\* A ready order was made vip and is still ready, with its ready_at.
C34_Witness ==
    /\ lastCall.op = "set_priority"
    /\ lastCall.success
    /\ lastCall.before = STATUS_READY
    /\ orders[lastCall.order].priority = "vip"
    /\ orders[lastCall.order].status = STATUS_READY
    /\ orders[lastCall.order].ready_at # Null

\* ---- C35
\* Every item belongs to exactly one stored order, and its station is Null
\* or a stored station.
ReferentialIntegrity ==
    \A i \in 1..Len(items) :
       /\ Cardinality({k \in 1..Len(orders) : orders[k].pk = items[i].order})
             = 1
       /\ \/ items[i].station = Null
          \/ items[i].station \in Pks(stations)

\* C35: after any sequence of order and station deletions every item
\* belongs to exactly one stored order and names a stored station or none;
\* the deletion of an order deletes exactly its items, and the deletion of
\* a station deletes no item and nulls exactly the references to it.
C35_ReferentialIntegrityUnderDeletion ==
    /\ []ReferentialIntegrity
    /\ [][/\ \A pk \in Pks(orders) :
               order_delete(pk) =>
                  /\ pk \notin Pks(orders')
                  /\ Pks(items') =
                        {items[i].pk : i \in {j \in 1..Len(items) :
                                                 items[j].order # pk}}
                  /\ stations' = stations
          /\ \A pk \in Pks(stations) :
               station_delete(pk) =>
                  /\ pk \notin Pks(stations')
                  /\ Len(items') = Len(items)
                  /\ \A i \in 1..Len(items) :
                        /\ items'[i].pk = items[i].pk
                        /\ items'[i].order = items[i].order
                        /\ items'[i].station =
                              IF items[i].station = pk THEN Null
                              ELSE items[i].station
                  /\ orders' = orders]_vars

\* An order with an item was deleted while another order keeps its item,
\* whose station has been deleted too.
C35_Witness ==
    /\ Len(orders) = 1
    /\ Len(items) = 1
    /\ items[1].pk = 2
    /\ items[1].station = Null
    /\ stations = << >>
    /\ lastCall.op = "station_delete"

\* ---- C36
\* The orders in which the requests can run one after the other.
SerialOrders ==
    {p \in [ReqIds -> ReqIds] : \A a, b \in ReqIds : p[a] = p[b] => a = b}

\* The stored order and items when the requests arrived.
ArrivalOrder ==
    [status |-> reqs[1].from,
     created_at |-> 1,
     accepted_at |-> Stamps(reqs[1].from).accepted_at,
     ready_at |-> Stamps(reqs[1].from).ready_at,
     served_at |-> Stamps(reqs[1].from).served_at]

ArrivalItems == [i \in 1..Len(items) |-> [order |-> 1, status |-> STATUS_PENDING]]

\* Request r run alone, start to end, on the order, the items and the
\* answers so far.
RunOne(s, r) ==
    IF reqs[r].kind = "command"
    THEN [ord |-> IF guard(reqs[r].op, s.ord.status)
                  THEN transition(reqs[r].op, s.ord, now) ELSE s.ord,
          its |-> s.its,
          ok |-> [s.ok EXCEPT ![r] = guard(reqs[r].op, s.ord.status)]]
    ELSE LET its2 == [s.its EXCEPT ![reqs[r].item].status = STATUS_READY]
         IN  [ord |-> IF \A i \in 1..Len(its2) : its2[i].status = STATUS_READY
                      THEN [s.ord EXCEPT !.status = STATUS_READY,
                                         !.ready_at = now]
                      ELSE s.ord,
              its |-> its2,
              ok |-> [s.ok EXCEPT ![r] = TRUE]]

\* The requests p[1], ..., p[k] run one after the other.
RECURSIVE RunSerial(_, _)
RunSerial(p, k) ==
    IF k = 0
    THEN [ord |-> ArrivalOrder, its |-> ArrivalItems,
          ok |-> [r \in ReqIds |-> FALSE]]
    ELSE RunOne(RunSerial(p, k - 1), p[k])

\* The answer request r has given: a bump_item always succeeds.
Answered(r) == IF reqs[r].kind = "command" THEN reqs[r].success ELSE TRUE

\* C36: when concurrent commands on one order have all answered, the stored
\* order and items and the answers (and with them the audit rows, one per
\* successful command) are those of the requests run one after the other
\* in some order; and no command saves a transition while the stored
\* status fails its guard.
C36_ConcurrentCommandsSerializable ==
    /\ []((\A r \in ReqIds : reqs[r].pc = "done") =>
            \E p \in SerialOrders :
               LET s == RunSerial(p, Len(reqs))
               IN  /\ orders[1] = s.ord
                   /\ items = s.its
                   /\ \A r \in ReqIds : Answered(r) = s.ok[r])
    /\ [][\A r \in ReqIds :
            command_write(r) => guard(reqs[r].op, orders[1].status)]_vars

\* ---- C37
\* C37: in every stored state, an order that is preparing has accepted_at,
\* an order that is ready or served has ready_at, and an order that is
\* served has served_at.
C37_StatusImpliesTimestamps ==
    \A o \in OrderIds :
       /\ orders[o].status = STATUS_PREPARING => orders[o].accepted_at # Null
       /\ orders[o].status \in {STATUS_READY, STATUS_SERVED}
             => orders[o].ready_at # Null
       /\ orders[o].status = STATUS_SERVED => orders[o].served_at # Null

\* ---- C38
\* a and b are ordered when both are set.
Ordered(a, b) == (a # Null /\ b # Null) => a <= b

\* C38: in every stored state the timestamps of an order that are set are
\* ordered: created_at <= accepted_at <= ready_at <= served_at, for every
\* pair of them.
C38_TimestampsOrdered ==
    \A o \in OrderIds :
       /\ Ordered(orders[o].created_at, orders[o].accepted_at)
       /\ Ordered(orders[o].created_at, orders[o].ready_at)
       /\ Ordered(orders[o].created_at, orders[o].served_at)
       /\ Ordered(orders[o].accepted_at, orders[o].ready_at)
       /\ Ordered(orders[o].accepted_at, orders[o].served_at)
       /\ Ordered(orders[o].ready_at, orders[o].served_at)

\* ---- C39
\* What the seven order-level commands answer as.
OrderOps ==
    {"start", "bump", "complete", "serve", "recall", "cancel", "set_priority"}

\* C39: a step of an order-level command -- start, complete, bump, serve,
\* recall, cancel, set_priority -- found, refused or not found, leaves the
\* item table as it was; and a bump_item that finds its item succeeds and
\* leaves the item ready whatever the status of its order is.
C39_OrderCommandsLeaveItems ==
    [][/\ lastCall'.op \in OrderOps => items' = items
       /\ lastCall'.op = "bump_item" =>
             \A hub \in Hubs, pk \in ItemIds :
                (~ItemMissing(hub, pk) /\ bump_item_view(hub, pk)) =>
                   /\ lastCall'.success
                   /\ items'[pk].status = STATUS_READY
                   /\ \A j \in ItemIds \ {pk} : items'[j] = items[j]]_vars

\* An item of a cancelled order was bumped: it is ready, the other item of
\* the order is still pending, and the order is still cancelled.
C39_Witness ==
    /\ lastCall.op = "bump_item"
    /\ lastCall.success
    /\ lastCall.before = STATUS_CANCELLED
    /\ orders[lastCall.order].status = STATUS_CANCELLED
    /\ \E i, j \in ItemsOf(items, lastCall.order) :
          /\ items[i].status = STATUS_READY
          /\ items[j].status = STATUS_PENDING

\* ---- C40
\* C40: a sale-created event with no line item creates no order, no item
\* and no configuration row and writes nothing else; and every order that
\* the handler is not still creating has at least one item.
C40_EmptySaleCreatesNothing ==
    /\ [][on_sale_created(0) =>
            /\ orders' = orders
            /\ items' = items
            /\ config_rows' = config_rows
            /\ sale' = sale
            /\ UNCHANGED <<auto_accept_orders, config, logged, lastCall>>]_vars
    /\ [](\A o \in OrderIds :
            (sale.pc = "idle" \/ sale.order # o) => ItemsOf(items, o) # {})

\* The handler has returned from a sale of one line: the order it created
\* has that one item, and nothing else has run.
C40_Witness ==
    /\ SaleDone
    /\ lastCall = NoCall
    /\ Len(orders) = 1
    /\ Cardinality(ItemsOf(items, 1)) = 1
    /\ \A j \in ItemsOf(items, 1) : items[j].status = STATUS_PENDING

====
